---- MODULE Spec2Model ----
(***************************************************************************)
(* Model of the OFFX gateway (src/index.ts): the parameter validators, the *)
(* per-tool request builders and the two dispatchers (HTTP and the         *)
(* structured tool-invocation transport).                                  *)
(*                                                                         *)
(* JavaScript values are records [t, n, s]: t is the typeof-like tag, n    *)
(* the number (or 0/1 for a boolean), s the string as a sequence of        *)
(* one-character strings.                                                  *)
(***************************************************************************)
EXTENDS Integers, Sequences, FiniteSets, TLC

(* ------------------------------ bounds -------------------------------- *)
\* longest string fed to the validators in SpecV
MaxStrLen == 4
\* largest number of optional filter fields a caller supplies in one call
MaxFilters == 1
\* number of calls in flight at once
MaxCalls == 2

(* --------------------------- JavaScript values ------------------------ *)
Undef == [t |-> "undefined", n |-> 0, s |-> <<>>]
Null == [t |-> "null", n |-> 0, s |-> <<>>]
Num(k) == [t |-> "number", n |-> k, s |-> <<>>]
Str(chars) == [t |-> "string", n |-> 0, s |-> chars]
Bool(b) == [t |-> "boolean", n |-> IF b THEN 1 ELSE 0, s |-> <<>>]

Digits == {"0", "1", "2", "3", "4", "5", "6", "7", "8", "9"}

DigitChar(d) == CASE d = 0 -> "0" [] d = 1 -> "1" [] d = 2 -> "2" [] d = 3 -> "3"
                  [] d = 4 -> "4" [] d = 5 -> "5" [] d = 6 -> "6" [] d = 7 -> "7"
                  [] d = 8 -> "8" [] d = 9 -> "9"

RECURSIVE NatToStr(_)
NatToStr(k) == IF k < 10 THEN <<DigitChar(k)>>
               ELSE Append(NatToStr(k \div 10), DigitChar(k % 10))

\* String(n) for an integer n
NumToStr(k) == IF k < 0 THEN <<"-">> \o NatToStr(0 - k) ELSE NatToStr(k)

\* String(v): the string conversion URLSearchParams and String() apply
ToStr(v) == CASE v.t = "string" -> v.s
              [] v.t = "number" -> NumToStr(v.n)
              [] v.t = "boolean" -> IF v.n = 1 THEN <<"t", "r", "u", "e">>
                                    ELSE <<"f", "a", "l", "s", "e">>
              [] v.t = "null" -> <<"n", "u", "l", "l">>
              [] v.t = "undefined" -> <<"u", "n", "d", "e", "f", "i", "n", "e", "d">>

\* ToBoolean(v): what !v, !!v, v && w and v || w test
Truthy(v) == CASE v.t = "string" -> v.s # <<>>
               [] v.t = "number" -> v.n # 0
               [] v.t = "boolean" -> v.n = 1
               [] OTHER -> FALSE

\* v ?? d
Nullish(v) == v.t \in {"undefined", "null"}

(* ------------------------------- errors ------------------------------- *)
\* A thrown Error: cls tells where it was raised ("validation": a validator
\* or a presence check of a builder, before any fetch; "upstream": the
\* !response.ok branch; "parse": response.json() or JSON.parse; "type": a
\* TypeError of the runtime), text/field/status/body are the parts of the
\* message, allowed the values an enum message lists.
NoError ==
    [cls |-> "none", text |-> "", field |-> "", status |-> 0, body |-> "", allowed |-> <<>>]
ValidationError(text, field) ==
    [cls |-> "validation", text |-> text, field |-> field, status |-> 0, body |-> "",
     allowed |-> <<>>]

(* ------------------------------ validators ---------------------------- *)
\* /^\d+(,\d+)*$/.test(s), run as the automaton of the expression:
\* q = 0 expects the first digit of a group, q = 1 is inside a group.
RECURSIVE RegexScan(_, _, _)
RegexScan(s, i, q) ==
    IF i > Len(s) THEN q = 1
    ELSE IF s[i] \in Digits THEN RegexScan(s, i + 1, 1)
    ELSE IF s[i] = "," /\ q = 1 THEN RegexScan(s, i + 1, 0)
    ELSE FALSE

RegexTest(s) == RegexScan(s, 1, 0)

CsnText == "must be a number or a comma-separated list of numbers (e.g., 1,2,3)"

\* mutant: the expression without its end anchor, /^\d+(,\d+)*/
validateCommaSeparatedNumbers_Unanchored(param, fieldName) ==
    IF param.t = "undefined" \/ param.t = "null" \/ param = Str(<<>>) THEN NoError
    ELSE IF param.t = "number" THEN NoError
    ELSE IF param.t = "string" /\ Len(param.s) > 0 /\ param.s[1] \in Digits THEN NoError
    ELSE ValidationError(CsnText, fieldName)

validateCommaSeparatedNumbers(param, fieldName) ==
    IF param.t = "undefined" \/ param.t = "null" \/ param = Str(<<>>) THEN NoError
    ELSE IF param.t = "number" THEN NoError
    ELSE IF param.t = "string"
         THEN IF ~RegexTest(param.s) THEN ValidationError(CsnText, fieldName)
              ELSE NoError
    ELSE ValidationError(CsnText, fieldName)

\* mutant: any string passes, allowed.includes(param) is not asked
validateStringEnum_AnyString(param, fieldName, allowed) ==
    IF param.t = "undefined" \/ param.t = "null" \/ param = Str(<<>>) THEN NoError
    ELSE IF param.t # "string"
         THEN [cls |-> "validation", text |-> "must be one of", field |-> fieldName,
               status |-> 0, body |-> "", allowed |-> allowed]
    ELSE NoError

\* allowed is the list of allowed strings; the message lists them
validateStringEnum(param, fieldName, allowed) ==
    IF param.t = "undefined" \/ param.t = "null" \/ param = Str(<<>>) THEN NoError
    ELSE IF param.t # "string" \/ ~(\E i \in 1..Len(allowed) : allowed[i] = param.s)
         THEN [cls |-> "validation", text |-> "must be one of", field |-> fieldName,
               status |-> 0, body |-> "", allowed |-> allowed]
    ELSE NoError

validateNumber(param, fieldName) ==
    IF param.t = "undefined" \/ param.t = "null" THEN NoError
    ELSE IF param.t # "number" THEN ValidationError("must be a number", fieldName)
    ELSE NoError

(* ------------------------------- state -------------------------------- *)
VARIABLES
    OFFX_API_TOKEN,  \* the configured token (process.env.OFFX_API_TOKEN), a string
    pc,              \* where the handler of the call stands
    req,             \* the inbound request being handled
    plan,            \* what the builder of the call did up to its await
    fetches,         \* the upstream requests issued for the call, in order
    resp,            \* the upstream response the pending fetch got
    writes,          \* the responses delivered to the caller, in order
    vin,             \* SpecV: the value and field name handed to a validator
    vout,            \* SpecV: the validator that ran and what it threw
    calls,           \* SpecC: the calls in flight that are not running, each
                     \* with the locals of its handler
    cur              \* SpecC: the call whose handler the event loop runs

vars == <<OFFX_API_TOKEN, pc, req, plan, fetches, resp, writes, vin, vout, calls, cur>>

(* --------------------------- call arguments --------------------------- *)
Fields == {"drug", "target", "adverse_event", "drug_id", "target_id", "action_id",
           "adverse_event_id", "page", "type", "ref_source_type", "alert_type",
           "alert_phase", "alert_level_evidence", "alert_onoff_target",
           "alert_severity", "alert_causality", "alert_species", "alert_date_from",
           "alert_date_to", "order_by_date", "order_by_adv"}

\* the object {} : every property reads as undefined
EmptyArgs == [f \in Fields |-> Undef]

(* ------------------------- upstream requests -------------------------- *)
\* The upstream paths below https://api.targetsafety.info
DrugSearchPath == "/api/drug/search/param"
DrugAlertsPath == "/api/drug/alerts/param"
TargetAlertsPath == "/api/target/alerts/param"
DrugScorePath == "/api/score/drug/search/param"
TargetScorePath == "/api/score/target/search/param"
AdverseEventSearchPath == "/api/adverseevent/search/param"
DrugMasterviewPath == "/api/drug/masterview/param"
TargetSearchPath == "/api/target/search/param"
TargetMasterviewPath == "/api/target/masterview/param"
PrimaryTargetsPath == "/api/target/primary/search/param"
SecondaryTargetsPath == "/api/target/secondary/search/param"

\* What a builder does up to its first await: it throws err, or it calls
\* fetch on path with the URLSearchParams query (the list of its
\* [key, value] pairs in insertion order); wrap is the key under which getTargets
\* returns the result's targets ("" : the result is returned as it is).
QP(k, v) == [key |-> k, value |-> v]
Throw(e) == [err |-> e, path |-> "", query |-> <<>>, wrap |-> ""]
Fetch(path, query) == [err |-> NoError, path |-> path, query |-> query, wrap |-> ""]

\* the first validator of the list that throws
RECURSIVE FirstError(_)
FirstError(errs) ==
    IF errs = <<>> THEN NoError
    ELSE IF Head(errs).cls # "none" THEN Head(errs)
    ELSE FirstError(Tail(errs))

\* mutant: the empty string is forwarded too
RECURSIVE AppendFilters_KeepEmpty(_, _, _)
AppendFilters_KeepEmpty(query, keys, params) ==
    IF keys = <<>> THEN query
    ELSE LET value == params[Head(keys)]
             q == IF value # Undef /\ value # Null
                  THEN Append(query, QP(Head(keys), ToStr(value)))
                  ELSE query
         IN AppendFilters_KeepEmpty(q, Tail(keys), params)

\* [...keys].forEach(key => { if (value !== undefined && value !== null &&
\* value !== '') query.append(key, String(value)) })
RECURSIVE AppendFilters(_, _, _)
AppendFilters(query, keys, params) ==
    IF keys = <<>> THEN query
    ELSE LET value == params[Head(keys)]
             q == IF value # Undef /\ value # Null /\ value # Str(<<>>)
                  THEN Append(query, QP(Head(keys), ToStr(value)))
                  ELSE query
         IN AppendFilters(q, Tail(keys), params)

(* --------------------------- request builders ------------------------- *)
TokenQP == QP("token", OFFX_API_TOKEN)

searchDrugsByName(args) ==
    IF ~Truthy(args["drug"]) THEN Throw(ValidationError("drug is required", "drug"))
    ELSE Fetch(DrugSearchPath, <<QP("drug", ToStr(args["drug"])), TokenQP>>)

GetDrugsText == "You must provide either both target_id and action_id, or only adverse_event_id"

\* mutant: adverse_event_id is not looked at when target_id and action_id
\* are there
getDrugs_AdveIgnored(args) ==
    LET target_id == args["target_id"]
        action_id == args["action_id"]
        adverse_event_id == args["adverse_event_id"]
        page == args["page"]
        pageNum == IF Nullish(page) THEN Num(1) ELSE page
    IN IF Truthy(target_id) /\ Truthy(action_id)
       THEN Fetch(DrugSearchPath,
                  <<QP("target_id", ToStr(target_id)), QP("action_id", ToStr(action_id)),
                    QP("page", ToStr(pageNum)), TokenQP>>)
       ELSE IF ~Truthy(target_id) /\ ~Truthy(action_id) /\ Truthy(adverse_event_id)
       THEN Fetch(DrugSearchPath,
                  <<QP("adverse_event_id", ToStr(adverse_event_id)),
                    QP("page", ToStr(pageNum)), TokenQP>>)
       ELSE Throw(ValidationError(GetDrugsText, ""))

getDrugs(args) ==
    LET target_id == args["target_id"]
        action_id == args["action_id"]
        adverse_event_id == args["adverse_event_id"]
        page == args["page"]
        hasTarget == Truthy(target_id)
        hasAction == Truthy(action_id)
        hasAdve == Truthy(adverse_event_id)
        pageNum == IF Nullish(page) THEN Num(1) ELSE page
    IN IF ~((hasTarget /\ hasAction /\ ~hasAdve) \/ (~hasTarget /\ ~hasAction /\ hasAdve))
       THEN Throw(ValidationError(GetDrugsText, ""))
       ELSE IF hasTarget /\ hasAction
       THEN Fetch(DrugSearchPath,
                  <<QP("target_id", ToStr(target_id)), QP("action_id", ToStr(action_id)),
                    QP("page", ToStr(pageNum)), TokenQP>>)
       ELSE IF hasAdve
       THEN Fetch(DrugSearchPath,
                  <<QP("adverse_event_id", ToStr(adverse_event_id)),
                    QP("page", ToStr(pageNum)), TokenQP>>)
       ELSE Throw(ValidationError(GetDrugsText, ""))

YesNo == << <<"y", "e", "s">>, <<"n", "o">> >>
DescAsc == << <<"d", "e", "s", "c">>, <<"a", "s", "c">> >>

\* validateStringEnum behind its "!== undefined" guard
GuardedEnum(param, fieldName, allowed) ==
    IF param # Undef THEN validateStringEnum(param, fieldName, allowed) ELSE NoError

\* mutant: page is among the keys copied from the arguments
AlertFilterKeys_WithPage ==
    <<"action_id", "adverse_event_id", "ref_source_type", "alert_type", "alert_phase",
      "alert_level_evidence", "alert_onoff_target", "alert_severity", "alert_causality",
      "alert_species", "alert_date_from", "alert_date_to", "order_by_date", "order_by_adv",
      "page">>

AlertFilterKeys ==
    <<"action_id", "adverse_event_id", "ref_source_type", "alert_type", "alert_phase",
      "alert_level_evidence", "alert_onoff_target", "alert_severity", "alert_causality",
      "alert_species", "alert_date_from", "alert_date_to", "order_by_date", "order_by_adv">>

ExactlyOneText == "You must provide exactly one of: drug_id or target_id"

\* mutant: no validator runs before the exactly-one rule
getAlertsValidators_None(params) == NoError

\* the validator calls that open getAlerts, in their order
getAlertsValidators(params) ==
    FirstError(<<
        validateCommaSeparatedNumbers(params["drug_id"], "drug_id"),
        validateCommaSeparatedNumbers(params["target_id"], "target_id"),
        validateCommaSeparatedNumbers(params["action_id"], "action_id"),
        validateNumber(params["page"], "page"),
        validateCommaSeparatedNumbers(params["adverse_event_id"], "adverse_event_id"),
        validateCommaSeparatedNumbers(params["ref_source_type"], "ref_source_type"),
        validateCommaSeparatedNumbers(params["alert_type"], "alert_type"),
        validateCommaSeparatedNumbers(params["alert_phase"], "alert_phase"),
        validateCommaSeparatedNumbers(params["alert_level_evidence"], "alert_level_evidence"),
        validateCommaSeparatedNumbers(params["alert_onoff_target"], "alert_onoff_target"),
        GuardedEnum(params["alert_severity"], "alert_severity", YesNo),
        GuardedEnum(params["order_by_date"], "order_by_date", DescAsc),
        GuardedEnum(params["order_by_adv"], "order_by_adv", DescAsc) >>)

\* the query of getAlerts: page and token, the id supplied, then the filters
getAlertsQuery(params) ==
    LET drug_id == params["drug_id"]
        target_id == params["target_id"]
        page == params["page"]
        pageNum == IF Nullish(page) THEN Num(1) ELSE page
        q0 == <<QP("page", ToStr(pageNum)), TokenQP>>
        q1 == IF Truthy(drug_id) THEN Append(q0, QP("drug_id", ToStr(drug_id))) ELSE q0
        q2 == IF Truthy(target_id) THEN Append(q1, QP("target_id", ToStr(target_id))) ELSE q1
    IN AppendFilters(q2, AlertFilterKeys, params)

\* mutant: the two alert paths exchanged
getAlerts_PathsSwapped(params) ==
    LET invalid == getAlertsValidators(params)
        drug_id == params["drug_id"]
        target_id == params["target_id"]
    IN IF invalid.cls # "none" THEN Throw(invalid)
       ELSE IF (Truthy(drug_id) /\ Truthy(target_id)) \/ (~Truthy(drug_id) /\ ~Truthy(target_id))
       THEN Throw(ValidationError(ExactlyOneText, ""))
       ELSE Fetch(IF Truthy(drug_id) THEN TargetAlertsPath ELSE DrugAlertsPath,
                  getAlertsQuery(params))

getAlerts(params) ==
    LET invalid == getAlertsValidators(params)
        drug_id == params["drug_id"]
        target_id == params["target_id"]
    IN IF invalid.cls # "none" THEN Throw(invalid)
       ELSE IF (Truthy(drug_id) /\ Truthy(target_id)) \/ (~Truthy(drug_id) /\ ~Truthy(target_id))
       THEN Throw(ValidationError(ExactlyOneText, ""))
       ELSE Fetch(IF Truthy(drug_id) THEN DrugAlertsPath ELSE TargetAlertsPath,
                  getAlertsQuery(params))

\* mutant: adverse_event_id is sent whenever the caller gave one
getDrugScore_SendsSupplied(drug_id, adverse_event_id) ==
    IF ~Truthy(drug_id) THEN Throw(ValidationError("drug_id is required", "drug_id"))
    ELSE LET q0 == <<QP("drug_id", ToStr(drug_id)), TokenQP>>
         IN Fetch(DrugScorePath,
                  IF adverse_event_id # Undef
                  THEN Append(q0, QP("adverse_event_id", ToStr(adverse_event_id)))
                  ELSE q0)

getDrugScore(drug_id, adverse_event_id) ==
    IF ~Truthy(drug_id) THEN Throw(ValidationError("drug_id is required", "drug_id"))
    ELSE LET q0 == <<QP("drug_id", ToStr(drug_id)), TokenQP>>
         IN Fetch(DrugScorePath,
                  IF Truthy(adverse_event_id)
                  THEN Append(q0, QP("adverse_event_id", ToStr(adverse_event_id)))
                  ELSE q0)

searchAdverseEvents(args) ==
    IF ~Truthy(args["adverse_event"])
    THEN Throw(ValidationError("adverse_event is required", "adverse_event"))
    ELSE Fetch(AdverseEventSearchPath,
               <<QP("adverse_event", ToStr(args["adverse_event"])), TokenQP>>)

\* mutant: only the call with neither id is refused
getAdverseEvents_NeitherOnly(args) ==
    LET drug_id == args["drug_id"]
        target_id == args["target_id"]
    IN IF ~Truthy(drug_id) /\ ~Truthy(target_id)
       THEN Throw(ValidationError(ExactlyOneText, ""))
       ELSE IF Truthy(drug_id)
       THEN Fetch(AdverseEventSearchPath, <<QP("drug_id", ToStr(drug_id)), TokenQP>>)
       ELSE Fetch(AdverseEventSearchPath, <<QP("target_id", ToStr(target_id)), TokenQP>>)

getAdverseEvents(args) ==
    LET drug_id == args["drug_id"]
        target_id == args["target_id"]
    IN IF (Truthy(drug_id) /\ Truthy(target_id)) \/ (~Truthy(drug_id) /\ ~Truthy(target_id))
       THEN Throw(ValidationError(ExactlyOneText, ""))
       ELSE IF Truthy(drug_id)
       THEN Fetch(AdverseEventSearchPath, <<QP("drug_id", ToStr(drug_id)), TokenQP>>)
       ELSE IF Truthy(target_id)
       THEN Fetch(AdverseEventSearchPath, <<QP("target_id", ToStr(target_id)), TokenQP>>)
       ELSE Throw(ValidationError(ExactlyOneText, ""))

\* mutant: adverse_event_id is not forwarded
getTargetScore_NoAdverse(target_id, action_id, adverse_event_id) ==
    IF ~Truthy(target_id) THEN Throw(ValidationError("target_id is required", "target_id"))
    ELSE IF ~Truthy(action_id) THEN Throw(ValidationError("action_id is required", "action_id"))
    ELSE Fetch(TargetScorePath,
               <<QP("target_id", ToStr(target_id)), QP("action_id", ToStr(action_id)), TokenQP>>)

getTargetScore(target_id, action_id, adverse_event_id) ==
    IF ~Truthy(target_id) THEN Throw(ValidationError("target_id is required", "target_id"))
    ELSE IF ~Truthy(action_id) THEN Throw(ValidationError("action_id is required", "action_id"))
    ELSE LET q0 == <<QP("target_id", ToStr(target_id)), QP("action_id", ToStr(action_id)),
                     TokenQP>>
         IN Fetch(TargetScorePath,
                  IF Truthy(adverse_event_id)
                  THEN Append(q0, QP("adverse_event_id", ToStr(adverse_event_id)))
                  ELSE q0)

GetScoreText == "You must provide either drug_id (alone), or both target_id and action_id (together), but not neither, not all, and not just one of target_id/action_id"

getScore(args) ==
    LET drug_id == args["drug_id"]
        adverse_event_id == args["adverse_event_id"]
        target_id == args["target_id"]
        action_id == args["action_id"]
        hasDrug == Truthy(drug_id)
        hasTarget == Truthy(target_id)
        hasAction == Truthy(action_id)
    IN IF ~((hasDrug /\ ~hasTarget /\ ~hasAction) \/ (~hasDrug /\ hasTarget /\ hasAction))
       THEN Throw(ValidationError(GetScoreText, ""))
       ELSE IF hasDrug THEN getDrugScore(drug_id, adverse_event_id)
       ELSE IF hasTarget /\ hasAction THEN getTargetScore(target_id, action_id, adverse_event_id)
       ELSE Throw(ValidationError(
                "You must provide either drug_id (alone), or both target_id and action_id (together)", ""))

DrugFilterKeys ==
    <<"adverse_event_id", "ref_source_type", "alert_type", "alert_phase",
      "alert_level_evidence", "alert_severity", "alert_causality", "alert_species",
      "alert_date_from", "alert_date_to">>

\* the validator calls that open getDrugMasterview, in their order
getDrugMasterviewValidators(params) ==
    FirstError(<<
        validateCommaSeparatedNumbers(params["drug_id"], "drug_id"),
        validateNumber(params["page"], "page"),
        validateCommaSeparatedNumbers(params["adverse_event_id"], "adverse_event_id"),
        validateCommaSeparatedNumbers(params["ref_source_type"], "ref_source_type"),
        validateCommaSeparatedNumbers(params["alert_type"], "alert_type"),
        validateCommaSeparatedNumbers(params["alert_phase"], "alert_phase"),
        validateCommaSeparatedNumbers(params["alert_level_evidence"], "alert_level_evidence"),
        GuardedEnum(params["alert_severity"], "alert_severity", YesNo) >>)

\* mutant: a missing page defaults to 1 instead of being refused
getDrugMasterview_PageDefault(params) ==
    LET invalid == getDrugMasterviewValidators(params)
        drug_id == params["drug_id"]
        page == IF Truthy(params["page"]) THEN params["page"] ELSE Num(1)
    IN IF invalid.cls # "none" THEN Throw(invalid)
       ELSE IF ~Truthy(drug_id) THEN Throw(ValidationError("drug_id is required", "drug_id"))
       ELSE Fetch(DrugMasterviewPath,
                  AppendFilters(<<QP("drug_id", ToStr(drug_id)), QP("page", ToStr(page)),
                                  TokenQP>>, DrugFilterKeys, params))

getDrugMasterview(params) ==
    LET invalid == getDrugMasterviewValidators(params)
        drug_id == params["drug_id"]
        page == params["page"]
    IN IF invalid.cls # "none" THEN Throw(invalid)
       ELSE IF ~Truthy(drug_id) THEN Throw(ValidationError("drug_id is required", "drug_id"))
       ELSE IF ~Truthy(page) THEN Throw(ValidationError("page is required", "page"))
       ELSE Fetch(DrugMasterviewPath,
                  AppendFilters(<<QP("drug_id", ToStr(drug_id)), QP("page", ToStr(page)),
                                  TokenQP>>, DrugFilterKeys, params))

\* mutant: the target name is not asked for
searchTargets_NoCheck(args) ==
    Fetch(TargetSearchPath, <<QP("target", ToStr(args["target"])), TokenQP>>)

searchTargets(args) ==
    IF ~Truthy(args["target"]) THEN Throw(ValidationError("target is required", "target"))
    ELSE Fetch(TargetSearchPath, <<QP("target", ToStr(args["target"])), TokenQP>>)

TargetFilterKeys ==
    <<"adverse_event_id", "ref_source_type", "alert_type", "alert_phase",
      "alert_level_evidence", "alert_onoff_target", "alert_severity", "alert_causality",
      "alert_species", "alert_date_from", "alert_date_to">>

\* the validator calls that open getTargetMasterview, in their order
getTargetMasterviewValidators(params) ==
    FirstError(<<
        validateCommaSeparatedNumbers(params["target_id"], "target_id"),
        validateCommaSeparatedNumbers(params["action_id"], "action_id"),
        validateNumber(params["page"], "page"),
        validateCommaSeparatedNumbers(params["adverse_event_id"], "adverse_event_id"),
        validateCommaSeparatedNumbers(params["ref_source_type"], "ref_source_type"),
        validateCommaSeparatedNumbers(params["alert_type"], "alert_type"),
        validateCommaSeparatedNumbers(params["alert_phase"], "alert_phase"),
        validateCommaSeparatedNumbers(params["alert_level_evidence"], "alert_level_evidence"),
        validateCommaSeparatedNumbers(params["alert_onoff_target"], "alert_onoff_target"),
        GuardedEnum(params["alert_severity"], "alert_severity", YesNo) >>)

\* mutant: page || 1 in place of page ?? 1
getTargetMasterview_PageOr(params) ==
    LET invalid == getTargetMasterviewValidators(params)
        target_id == params["target_id"]
        action_id == params["action_id"]
        page == params["page"]
        pageNum == IF Truthy(page) THEN page ELSE Num(1)
    IN IF invalid.cls # "none" THEN Throw(invalid)
       ELSE IF ~Truthy(target_id) THEN Throw(ValidationError("target_id is required", "target_id"))
       ELSE IF ~Truthy(action_id) THEN Throw(ValidationError("action_id is required", "action_id"))
       ELSE Fetch(TargetMasterviewPath,
                  AppendFilters(<<QP("target_id", ToStr(target_id)),
                                  QP("action_id", ToStr(action_id)),
                                  QP("page", ToStr(pageNum)), TokenQP>>,
                                TargetFilterKeys, params))

getTargetMasterview(params) ==
    LET invalid == getTargetMasterviewValidators(params)
        target_id == params["target_id"]
        action_id == params["action_id"]
        page == params["page"]
        pageNum == IF Nullish(page) THEN Num(1) ELSE page
    IN IF invalid.cls # "none" THEN Throw(invalid)
       ELSE IF ~Truthy(target_id) THEN Throw(ValidationError("target_id is required", "target_id"))
       ELSE IF ~Truthy(action_id) THEN Throw(ValidationError("action_id is required", "action_id"))
       ELSE Fetch(TargetMasterviewPath,
                  AppendFilters(<<QP("target_id", ToStr(target_id)),
                                  QP("action_id", ToStr(action_id)),
                                  QP("page", ToStr(pageNum)), TokenQP>>,
                                TargetFilterKeys, params))

getPrimaryTargets(drug_id) ==
    IF ~Truthy(drug_id) THEN Throw(ValidationError("drug_id is required", "drug_id"))
    ELSE Fetch(PrimaryTargetsPath, <<QP("drug_id", ToStr(drug_id)), TokenQP>>)

getSecondaryTargets(drug_id) ==
    IF ~Truthy(drug_id) THEN Throw(ValidationError("drug_id is required", "drug_id"))
    ELSE Fetch(SecondaryTargetsPath, <<QP("drug_id", ToStr(drug_id)), TokenQP>>)

getTargetsByAdverseEvent(adverse_event_id) ==
    IF ~Truthy(adverse_event_id)
    THEN Throw(ValidationError("adverse_event_id is required", "adverse_event_id"))
    ELSE Fetch(TargetSearchPath,
               <<QP("adverse_event_id", ToStr(adverse_event_id)), TokenQP>>)

Primary == Str(<<"p", "r", "i", "m", "a", "r", "y">>)
Secondary == Str(<<"s", "e", "c", "o", "n", "d", "a", "r", "y">>)

\* mutant: a missing type stands for "secondary"
getTargets_DefaultSecondary(args) ==
    LET drug_id == args["drug_id"]
        type == args["type"]
        adverse_event_id == args["adverse_event_id"]
        targetType == IF Truthy(type) THEN type ELSE Secondary
    IN IF (Truthy(drug_id) /\ Truthy(adverse_event_id))
          \/ (~Truthy(drug_id) /\ ~Truthy(adverse_event_id))
       THEN Throw(ValidationError(
                "You must provide exactly one of: drug_id or adverse_event_id", ""))
       ELSE IF Truthy(drug_id)
       THEN IF targetType = Primary
            THEN [getPrimaryTargets(drug_id) EXCEPT !.wrap = "primary_targets"]
            ELSE IF targetType = Secondary
            THEN [getSecondaryTargets(drug_id) EXCEPT !.wrap = "secondary_targets"]
            ELSE Throw(ValidationError("type must be \"primary\" or \"secondary\"", "type"))
       ELSE IF Truthy(adverse_event_id)
       THEN [getTargetsByAdverseEvent(adverse_event_id) EXCEPT !.wrap = "targets"]
       ELSE Throw(ValidationError("You must provide either drug_id or adverse_event_id", ""))

\* wrap names the key of the object getTargets builds from the awaited result
getTargets(args) ==
    LET drug_id == args["drug_id"]
        type == args["type"]
        adverse_event_id == args["adverse_event_id"]
        targetType == IF Truthy(type) THEN type ELSE Primary
    IN IF (Truthy(drug_id) /\ Truthy(adverse_event_id))
          \/ (~Truthy(drug_id) /\ ~Truthy(adverse_event_id))
       THEN Throw(ValidationError(
                "You must provide exactly one of: drug_id or adverse_event_id", ""))
       ELSE IF Truthy(drug_id)
       THEN IF targetType = Primary
            THEN [getPrimaryTargets(drug_id) EXCEPT !.wrap = "primary_targets"]
            ELSE IF targetType = Secondary
            THEN [getSecondaryTargets(drug_id) EXCEPT !.wrap = "secondary_targets"]
            ELSE Throw(ValidationError("type must be \"primary\" or \"secondary\"", "type"))
       ELSE IF Truthy(adverse_event_id)
       THEN [getTargetsByAdverseEvent(adverse_event_id) EXCEPT !.wrap = "targets"]
       ELSE Throw(ValidationError("You must provide either drug_id or adverse_event_id", ""))

(* ------------------------- upstream responses ------------------------- *)
\* A JSON value of the upstream: an object whose "targets" property is a
\* list of items (tgt = "list"), is missing or is null; or the value null.
JObj(tgt, items) == [kind |-> "object", tgt |-> tgt, items |-> items]
JNull == [kind |-> "null", tgt |-> "", items |-> <<>>]
JList(items) == [kind |-> "list", tgt |-> "", items |-> items]

\* a number, by the literal that denotes it: digits, or a digit, "e" and the
\* digits of a power of ten
JNum(chars) == [kind |-> "number", tgt |-> "", items |-> chars]
\* the number value Infinity, which no JSON text denotes
JInfinity == [kind |-> "number", tgt |-> "Infinity", items |-> <<>>]

UpstreamJsons == {JObj("list", <<"t1", "t2">>), JObj("list", <<>>), JObj("missing", <<>>),
                  JNull, JNum(<<"7">>), JNum(<<"1", "e", "4", "0", "0">>)}

DigitVal(c) == CHOOSE d \in 0..9 : DigitChar(d) = c
RECURSIVE StrToNat(_)
StrToNat(chars) ==
    IF chars = <<>> THEN 0
    ELSE 10 * StrToNat(SubSeq(chars, 1, Len(chars) - 1)) + DigitVal(chars[Len(chars)])
\* the power of ten of a number literal
Exponent(chars) ==
    IF Len(chars) > 2 /\ chars[2] = "e" THEN StrToNat(SubSeq(chars, 3, Len(chars))) ELSE 0

\* response.json(): JSON.parse of the body text j denotes. A number literal
\* is read as a double; beyond 1e308 that is Infinity.
ResponseJson(j) ==
    IF j.kind = "number" /\ Exponent(j.items) > 308 THEN JInfinity ELSE j

\* mutant: the body is the string of the text, not the value
JsonStringify_Quoted(v) ==
    [kind |-> "string", tgt |-> "", items |-> <<v.kind>>]

\* JSON.stringify(v), as the JSON value its text denotes: a JSON value is
\* written as itself, a number no JSON text denotes is written null
JsonStringify(v) ==
    IF v.kind = "number" /\ v.tgt = "Infinity" THEN JNull ELSE v

\* What fetch gives: kind "network" is a rejected fetch; otherwise status
\* and body text, parses telling whether response.json() succeeds and json
\* the value it gives.
NoResponse == [kind |-> "none", status |-> 0, text |-> "", parses |-> FALSE, json |-> JNull]
UpstreamResponses ==
    {[kind |-> "http", status |-> 200, text |-> "json", parses |-> TRUE, json |-> j] :
        j \in UpstreamJsons}
    \cup {[kind |-> "http", status |-> 200, text |-> "<html>", parses |-> FALSE, json |-> JNull],
          [kind |-> "http", status |-> 404, text |-> "not found", parses |-> FALSE, json |-> JNull],
          [kind |-> "http", status |-> 500, text |-> "{\"e\":1}", parses |-> TRUE,
           json |-> JObj("missing", <<>>)],
          [kind |-> "network", status |-> 0, text |-> "", parses |-> FALSE, json |-> JNull]}

\* what a builder returns or throws once its fetch has settled
NoResult == [kind |-> "none", key |-> "", val |-> JNull]
Returned(result) == [err |-> NoError, result |-> result]
Thrown(e) == [err |-> e, result |-> NoResult]

TypeError(text) ==
    [cls |-> "type", text |-> text, field |-> "", status |-> 0, body |-> "", allowed |-> <<>>]

\* mutant: the error of a non-2xx answer leaves the body text out
AfterFetch_NoBody(p, r) ==
    IF r.kind = "network"
    THEN Thrown([cls |-> "network", text |-> "fetch failed", field |-> "", status |-> 0,
                 body |-> "", allowed |-> <<>>])
    ELSE IF ~(r.status >= 200 /\ r.status <= 299)
    THEN Thrown([cls |-> "upstream", text |-> "Request failed with status", field |-> "",
                 status |-> r.status, body |-> "", allowed |-> <<>>])
    ELSE IF ~r.parses
    THEN Thrown([cls |-> "parse", text |-> "invalid json response body", field |-> "",
                 status |-> 0, body |-> "", allowed |-> <<>>])
    ELSE LET result == ResponseJson(r.json)
         IN IF p.wrap = "" THEN Returned([kind |-> "json", key |-> "", val |-> result])
            ELSE IF result.kind = "null"
            THEN Thrown(TypeError("Cannot read properties of null (reading 'targets')"))
            ELSE Returned([kind |-> "object", key |-> p.wrap,
                           val |-> IF result.kind = "object" /\ result.tgt = "list"
                                   THEN JList(result.items) ELSE JList(<<>>)])

\* the tail every builder shares: fetch, the !response.ok check and
\* response.json(); then, in getTargets, { <wrap>: result.targets || [] }
AfterFetch(p, r) ==
    IF r.kind = "network"
    THEN Thrown([cls |-> "network", text |-> "fetch failed", field |-> "", status |-> 0,
                 body |-> "", allowed |-> <<>>])
    ELSE IF ~(r.status >= 200 /\ r.status <= 299)
    THEN Thrown([cls |-> "upstream", text |-> "Request failed with status", field |-> "",
                 status |-> r.status, body |-> r.text, allowed |-> <<>>])
    ELSE IF ~r.parses
    THEN Thrown([cls |-> "parse", text |-> "invalid json response body", field |-> "",
                 status |-> 0, body |-> "", allowed |-> <<>>])
    ELSE LET result == ResponseJson(r.json)
         IN IF p.wrap = "" THEN Returned([kind |-> "json", key |-> "", val |-> result])
            ELSE IF result.kind = "null"
            THEN Thrown(TypeError("Cannot read properties of null (reading 'targets')"))
            ELSE Returned([kind |-> "object", key |-> p.wrap,
                           val |-> IF result.kind = "object" /\ result.tgt = "list"
                                   THEN JList(result.items) ELSE JList(<<>>)])

(* ----------------------------- dispatchers ---------------------------- *)
ToolNames == {"search_drugs", "get_drugs", "get_alerts", "get_score", "get_drug",
              "search_adverse_events", "get_adverse_events", "search_targets",
              "get_target", "get_targets"}

\* The value handed to the handler: the parsed request body (HTTP) or
\* request.params.arguments: an object (args), null, undefined, a bare
\* string (str), another primitive, or a body JSON.parse rejects.
Data(kind, args, str) == [kind |-> kind, args |-> args, str |-> str]
NoData == Data("none", EmptyArgs, <<>>)

\* the builder each tool name stands for
BuilderOf(tool, args) ==
    CASE tool = "search_drugs" -> searchDrugsByName(args)
      [] tool = "get_drugs" -> getDrugs(args)
      [] tool = "get_alerts" -> getAlerts(args)
      [] tool = "get_score" -> getScore(args)
      [] tool = "get_drug" -> getDrugMasterview(args)
      [] tool = "search_adverse_events" -> searchAdverseEvents(args)
      [] tool = "get_adverse_events" -> getAdverseEvents(args)
      [] tool = "search_targets" -> searchTargets(args)
      [] tool = "get_target" -> getTargetMasterview(args)
      [] tool = "get_targets" -> getTargets(args)

\* builder(data): reading a property of null or undefined is a TypeError,
\* every property of a primitive reads as undefined
CallBuilder(tool, data) ==
    IF data.kind \in {"null", "undefined"}
    THEN Throw(TypeError("Cannot read properties of null or undefined"))
    ELSE BuilderOf(tool, IF data.kind = "object" THEN data.args ELSE EmptyArgs)

NotFound == [cls |-> "route", text |-> "Not found", field |-> "", status |-> 0,
             body |-> "", allowed |-> <<>>]

\* mutant: a url outside the chain is served by the last builder of it
HttpRoute_LastServes(url, data) ==
    CASE url = "/search_drugs" -> CallBuilder("search_drugs", data)
      [] url = "/get_drugs" -> CallBuilder("get_drugs", data)
      [] url = "/get_alerts" -> CallBuilder("get_alerts", data)
      [] url = "/get_score" -> CallBuilder("get_score", data)
      [] url = "/get_drug" -> CallBuilder("get_drug", data)
      [] url = "/search_adverse_events" -> CallBuilder("search_adverse_events", data)
      [] url = "/get_adverse_events" -> CallBuilder("get_adverse_events", data)
      [] url = "/search_targets" -> CallBuilder("search_targets", data)
      [] url = "/get_target" -> CallBuilder("get_target", data)
      [] OTHER -> CallBuilder("get_targets", data)

\* the if / else-if chain on req.url of the HTTP handler
HttpRoute(url, data) ==
    CASE url = "/search_drugs" -> CallBuilder("search_drugs", data)
      [] url = "/get_drugs" -> CallBuilder("get_drugs", data)
      [] url = "/get_alerts" -> CallBuilder("get_alerts", data)
      [] url = "/get_score" -> CallBuilder("get_score", data)
      [] url = "/get_drug" -> CallBuilder("get_drug", data)
      [] url = "/search_adverse_events" -> CallBuilder("search_adverse_events", data)
      [] url = "/get_adverse_events" -> CallBuilder("get_adverse_events", data)
      [] url = "/search_targets" -> CallBuilder("search_targets", data)
      [] url = "/get_target" -> CallBuilder("get_target", data)
      [] url = "/get_targets" -> CallBuilder("get_targets", data)
      [] OTHER -> Throw(NotFound)

\* case 'search_drugs' (and its two twins) of the call-tool handler: the
\* field is read with String(args[field]) when the key is present, a bare
\* string stands for the field, an empty result is McpError(-32602)
McpSingleField(tool, field, data) ==
    LET v == IF data.kind = "object" /\ data.args[field] # Undef
             THEN Str(ToStr(data.args[field]))
             ELSE IF data.kind = "string" THEN Str(data.str)
             ELSE Undef
    IN IF ~Truthy(v)
       THEN Throw([cls |-> "validation", text |-> "MCP error -32602: is required",
                   field |-> field, status |-> 0 - 32602, body |-> "", allowed |-> <<>>])
       ELSE BuilderOf(tool, [EmptyArgs EXCEPT ![field] = v])

\* the switch on the tool name of the call-tool handler
McpRoute(toolName, data) ==
    CASE toolName = "search_drugs" -> McpSingleField("search_drugs", "drug", data)
      [] toolName = "get_drugs" -> CallBuilder("get_drugs", data)
      [] toolName = "get_alerts" -> CallBuilder("get_alerts", data)
      [] toolName = "get_score" -> CallBuilder("get_score", data)
      [] toolName = "get_drug" -> CallBuilder("get_drug", data)
      [] toolName = "search_targets" -> McpSingleField("search_targets", "target", data)
      [] toolName = "search_adverse_events" ->
            McpSingleField("search_adverse_events", "adverse_event", data)
      [] toolName = "get_adverse_events" -> CallBuilder("get_adverse_events", data)
      [] toolName = "get_target" -> CallBuilder("get_target", data)
      [] toolName = "get_targets" -> CallBuilder("get_targets", data)
      [] OTHER -> Throw([cls |-> "route", text |-> "MCP error -32603: Unknown tool",
                         field |-> "", status |-> 0 - 32603, body |-> "", allowed |-> <<>>])

(* ------------------------------ responses ----------------------------- *)
\* A response delivered to the caller.  kind "http": status line and body
\* (result on success, {error, code} otherwise); "mcp_result": the text
\* payload of result with isError false; "mcp_error": McpError(code, error).

\* res.end(JSON.stringify(result)) after writeHead(200); result is the JSON
\* value of the body text
HttpOk(result) ==
    [kind |-> "http", status |-> 200, code |-> 0, error |-> NoError,
     result |-> [result EXCEPT !.val = JsonStringify(result.val)]]

\* sendError(res, message, code = 400)
sendError(e, code) ==
    [kind |-> "http", status |-> code, code |-> code, error |-> e, result |-> NoResult]

\* { content: [{ type: 'text', text: JSON.stringify(result, null, 2) }],
\* isError: false }; result is the JSON value of the text
McpResult(result) ==
    [kind |-> "mcp_result", status |-> 0, code |-> 0, error |-> NoError,
     result |-> [result EXCEPT !.val = JsonStringify(result.val)]]

\* mutant: an McpError is thrown on as it is
McpErrorResponse_KeepsCode(e) ==
    [kind |-> "mcp_error", status |-> 0,
     code |-> IF e.status < 0 THEN e.status ELSE 0 - 32603, error |-> e, result |-> NoResult]

\* mutant: the catch returns the message as a tool result
McpErrorResponse_AsResult(e) ==
    [kind |-> "mcp_result", status |-> 0, code |-> 0, error |-> e, result |-> NoResult]

\* the catch of the call-tool handler: throw new McpError(-32603, message)
McpErrorResponse(e) ==
    [kind |-> "mcp_error", status |-> 0, code |-> 0 - 32603, error |-> e, result |-> NoResult]

\* { status: 'ok' }
HealthBody ==
    [kind |-> "health", key |-> "status",
     val |-> [kind |-> "string", tgt |-> "", items |-> <<"ok">>]]
\* mutant: POST /list_tools leaves get_targets out
HttpToolsBody_Short ==
    [kind |-> "tools", key |-> "tools",
     val |-> JList(<<"search_drugs", "get_drugs", "get_alerts", "get_score", "get_drug",
                     "search_adverse_events", "get_adverse_events", "search_targets",
                     "get_target">>)]

\* the names of the tools list of POST /list_tools
HttpToolsBody ==
    [kind |-> "tools", key |-> "tools",
     val |-> JList(<<"search_drugs", "get_drugs", "get_alerts", "get_score", "get_drug",
                     "search_adverse_events", "get_adverse_events", "search_targets",
                     "get_target", "get_targets">>)]
\* the names of the descriptors of the list-tools handler
McpToolsBody ==
    [kind |-> "tools", key |-> "tools",
     val |-> JList(<<"search_drugs", "get_drugs", "get_alerts", "get_score", "get_drug",
                     "get_target", "get_targets", "search_targets",
                     "search_adverse_events", "get_adverse_events">>)]

(* ---------------------------- input schemas --------------------------- *)
\* required: [...] of a JSON schema: every key named is a key of the object
Required(args, keys) == \A f \in keys : args[f] # Undef

\* the required / anyOf / oneOf part of the inputSchema of each descriptor
InputSchema(tool, args) ==
    CASE tool = "search_drugs" -> Required(args, {"drug"})
      [] tool = "get_drugs" ->
            (/\ Required(args, {"target_id", "action_id"})
             /\ ~Required(args, {"adverse_event_id"}))
            # (/\ Required(args, {"adverse_event_id"})
               /\ ~Required(args, {"target_id"}))
      [] tool = "get_alerts" -> \/ Required(args, {"drug_id", "page"})
                                \/ Required(args, {"target_id", "page"})
      [] tool = "get_score" -> \/ Required(args, {"drug_id"})
                               \/ Required(args, {"target_id", "action_id"})
      [] tool = "search_adverse_events" -> Required(args, {"adverse_event"})
      [] tool = "get_adverse_events" -> \/ Required(args, {"drug_id"})
                                        \/ Required(args, {"target_id"})
      [] tool = "get_drug" -> Required(args, {"drug_id", "page"})
      [] tool = "search_targets" -> Required(args, {"target"})
      [] tool = "get_target" -> Required(args, {"target_id", "action_id", "page"})
      [] tool = "get_targets" -> \/ Required(args, {"drug_id", "type"})
                                 \/ Required(args, {"adverse_event_id"})

(* ------------------------------- inputs ------------------------------- *)
S5 == Str(<<"5">>)
S12a == Str(<<"1", "2", "a">>)
SList == Str(<<"1", ",", "2">>)
SEmpty == Str(<<>>)
SX == Str(<<"x">>)
SAbc == Str(<<"a", "b", "c">>)

\* the values a caller supplies for a field (besides leaving it out)
FieldVals(f) ==
    CASE f = "drug_id" -> {S5, S12a, SEmpty, Num(0), Num(0 - 1), Null}
      [] f = "target_id" -> {S5, SList, S12a, SEmpty}
      [] f = "action_id" -> {S5, S12a, SEmpty, Num(0)}
      [] f = "adverse_event_id" -> {S5, S12a, SEmpty, Num(7)}
      [] f = "page" -> {Num(2), Num(0), Str(<<"2">>), Null}
      [] f = "type" -> {Primary, Secondary, SX, SEmpty}
      [] f = "alert_type" -> {SList, SX, SEmpty}
      [] f \in {"ref_source_type", "alert_phase", "alert_level_evidence",
                "alert_onoff_target"} -> {Str(<<"9">>), SX}
      [] f = "alert_severity" -> {Str(YesNo[1]), Str(YesNo[2]), SX, SEmpty, Null}
      [] f = "order_by_date" -> {Str(DescAsc[2]), SX, SEmpty}
      [] f = "order_by_adv" -> {Str(DescAsc[1]), SX}
      [] f = "alert_causality" -> {SAbc, SEmpty}
      [] f \in {"alert_species", "alert_date_from", "alert_date_to"} -> {SAbc}
      [] f \in {"drug", "target", "adverse_event"} -> {SAbc, SEmpty, Null, Num(0), Num(7)}

\* the fields of a tool a caller combines freely
KeyFields(tool) ==
    CASE tool = "search_drugs" -> {"drug", "drug_id"}
      [] tool = "search_targets" -> {"target", "drug"}
      [] tool = "search_adverse_events" -> {"adverse_event", "adverse_event_id"}
      [] tool = "get_drugs" -> {"target_id", "action_id", "adverse_event_id", "page"}
      [] tool = "get_score" -> {"drug_id", "target_id", "action_id", "adverse_event_id"}
      [] tool = "get_adverse_events" -> {"drug_id", "target_id"}
      [] tool = "get_targets" -> {"drug_id", "type", "adverse_event_id"}
      [] tool = "get_alerts" -> {"drug_id", "target_id"}
      [] tool = "get_drug" -> {"drug_id", "page"}
      [] tool = "get_target" -> {"target_id", "action_id"}

\* the optional fields a caller adds, at most MaxFilters of them: the
\* filters the builder forwards, page where it has a default and, for the
\* masterview tools, filters of get_alerts the builder does not read
FilterFields(tool) ==
    CASE tool = "get_alerts" -> {"page"} \cup {AlertFilterKeys[i] : i \in 1..14}
      [] tool = "get_drug" ->
            {"alert_onoff_target", "order_by_date"} \cup {DrugFilterKeys[i] : i \in 1..10}
      [] tool = "get_target" ->
            {"page", "order_by_adv"} \cup {TargetFilterKeys[i] : i \in 1..11}
      [] OTHER -> {}

\* the <<field, value>> choices of a caller over the fields fs
Choices(fs) == UNION {{<<f, v>> : v \in FieldVals(f)} : f \in fs}

\* the argument objects of base with at most k more fields of fs supplied
RECURSIVE Supply(_, _, _)
Supply(base, fs, k) ==
    IF k = 0 \/ fs = {} THEN base
    ELSE Supply(base \cup {[a EXCEPT ![c[1]] = c[2]] : a \in base, c \in Choices(fs)},
                fs, k - 1)

\* the filter a caller adds beyond its first one
MoreFilters == {"alert_type"}

\* the argument objects of each tool: every combination of its key fields,
\* with at most one filter of its own choice and, up to MaxFilters in all,
\* filters of MoreFilters
ArgsOf == [tool \in ToolNames |->
              Supply(Supply(Supply({EmptyArgs}, KeyFields(tool),
                                   Cardinality(KeyFields(tool))),
                            FilterFields(tool), IF MaxFilters >= 1 THEN 1 ELSE 0),
                     FilterFields(tool) \cap MoreFilters, MaxFilters - 1)]

ToolPath(tool) == <<"/">> \o <<tool>>
HttpUrls == {"/health", "/list_tools", "/unknown"} \cup
            {"/search_drugs", "/get_drugs", "/get_alerts", "/get_score", "/get_drug",
             "/search_adverse_events", "/get_adverse_events", "/search_targets",
             "/get_target", "/get_targets"}
HttpMethods == {"GET", "POST", "PUT"}

\* the tool a url or a tool name selects for the choice of the arguments
ToolOfUrl(url) ==
    CASE url = "/search_drugs" -> "search_drugs" [] url = "/get_drugs" -> "get_drugs"
      [] url = "/get_alerts" -> "get_alerts" [] url = "/get_score" -> "get_score"
      [] url = "/get_drug" -> "get_drug"
      [] url = "/search_adverse_events" -> "search_adverse_events"
      [] url = "/get_adverse_events" -> "get_adverse_events"
      [] url = "/search_targets" -> "search_targets"
      [] url = "/get_target" -> "get_target" [] url = "/get_targets" -> "get_targets"
      [] OTHER -> "none"

OtherData == {Data("null", EmptyArgs, <<>>), Data("primitive", EmptyArgs, <<>>)}

\* the bodies a POST carries
HttpBodies(url) ==
    {Data("unparsable", EmptyArgs, <<>>)} \cup OtherData \cup
    IF ToolOfUrl(url) \in ToolNames
    THEN {Data("object", a, <<>>) : a \in ArgsOf[ToolOfUrl(url)]}
    ELSE {Data("object", EmptyArgs, <<>>)}

\* the arguments a call-tool request carries
McpArguments(name) ==
    {Data("undefined", EmptyArgs, <<>>), Data("string", EmptyArgs, <<"a", "b", "c">>),
     Data("string", EmptyArgs, <<>>)} \cup
    IF name \in ToolNames
    THEN {Data("object", a, <<>>) : a \in ArgsOf[name]}
    ELSE {Data("object", EmptyArgs, <<>>)}

\* the configured token: the process exits at start when there is none
Tokens == {<<"k">>, <<"k", "2">>}

(* ------------------------------- actions ------------------------------ *)
Request(transport, method, url, name, data) ==
    [transport |-> transport, method |-> method, url |-> url, name |-> name, data |-> data]
NoRequest == Request("none", "", "", "", NoData)
NoPlan == Throw(NoError)

\* The locals of one run of a handler (and of the builder it awaits): each
\* run of the request callback has its own, a closure no other run reaches
Locals(p, q, b, f, r, w) ==
    [pc |-> p, req |-> q, plan |-> b, fetches |-> f, resp |-> r, writes |-> w]
NoCall == Locals("idle", NoRequest, NoPlan, <<>>, NoResponse, <<>>)
CallIds == 1..MaxCalls
NoCalls == [i \in CallIds |-> NoCall]

Init ==
    /\ OFFX_API_TOKEN \in Tokens
    /\ pc = "idle"
    /\ req = NoRequest
    /\ plan = NoPlan
    /\ fetches = <<>>
    /\ resp = NoResponse
    /\ writes = <<>>
    /\ vin = [param |-> Undef, field |-> ""]
    /\ vout = [by |-> "none", err |-> NoError]
    /\ calls = NoCalls
    /\ cur = 1

\* mutant: the health check is served for one token only
HttpRequest_HealthNeedsToken(method, url) ==
    /\ pc = "idle"
    /\ req' = Request("http", method, url, "", NoData)
    /\ IF method = "GET" /\ url = "/health" /\ OFFX_API_TOKEN = <<"k">>
       THEN /\ writes' = Append(writes, HttpOk(HealthBody))
            /\ pc' = "done"
       ELSE IF method = "POST" /\ url = "/list_tools"
       THEN /\ writes' = Append(writes, HttpOk(HttpToolsBody))
            /\ pc' = "done"
       ELSE IF method = "POST"
       THEN /\ writes' = writes
            /\ pc' = "body"
       ELSE /\ writes' = Append(writes, sendError(NotFound, 404))
            /\ pc' = "done"
    /\ UNCHANGED <<OFFX_API_TOKEN, plan, fetches, resp, vin, vout, calls, cur>>

\* http.createServer callback up to "await parseBody(req)"
HttpRequest(method, url) ==
    /\ pc = "idle"
    /\ req' = Request("http", method, url, "", NoData)
    /\ IF method = "GET" /\ url = "/health"
       THEN /\ writes' = Append(writes, HttpOk(HealthBody))
            /\ pc' = "done"
       ELSE IF method = "POST" /\ url = "/list_tools"
       THEN /\ writes' = Append(writes, HttpOk(HttpToolsBody))
            /\ pc' = "done"
       ELSE IF method = "POST"
       THEN /\ writes' = writes
            /\ pc' = "body"
       ELSE /\ writes' = Append(writes, sendError(NotFound, 404))
            /\ pc' = "done"
    /\ UNCHANGED <<OFFX_API_TOKEN, plan, fetches, resp, vin, vout, calls, cur>>

\* mutant: the 404 of an unknown path does not return, and the success
\* response follows it
HttpBodyEnd_NoReturn(data) ==
    /\ pc = "body"
    /\ req' = [req EXCEPT !.data = data]
    /\ IF data.kind = "unparsable"
       THEN /\ plan' = Throw([cls |-> "parse", text |-> "Unexpected token in JSON",
                              field |-> "", status |-> 0, body |-> "", allowed |-> <<>>])
            /\ writes' = Append(writes, sendError(plan'.err, 400))
            /\ fetches' = fetches
            /\ pc' = "done"
       ELSE /\ plan' = HttpRoute(req.url, data)
            /\ IF plan'.err.cls = "route"
               THEN /\ writes' = Append(Append(writes, sendError(plan'.err, 404)),
                                        HttpOk(NoResult))
                    /\ fetches' = fetches
                    /\ pc' = "done"
               ELSE IF plan'.err.cls # "none"
               THEN /\ writes' = Append(writes, sendError(plan'.err, 400))
                    /\ fetches' = fetches
                    /\ pc' = "done"
               ELSE /\ writes' = writes
                    /\ fetches' = Append(fetches, [path |-> plan'.path, query |-> plan'.query])
                    /\ pc' = "fetching"
    /\ UNCHANGED <<OFFX_API_TOKEN, resp, vin, vout, calls, cur>>

\* the body has arrived: JSON.parse, the routing chain and the builder up to
\* its fetch; a thrown error goes to the catch, an unknown url to the 404
HttpBodyEnd(data) ==
    /\ pc = "body"
    /\ req' = [req EXCEPT !.data = data]
    /\ IF data.kind = "unparsable"
       THEN /\ plan' = Throw([cls |-> "parse", text |-> "Unexpected token in JSON",
                              field |-> "", status |-> 0, body |-> "", allowed |-> <<>>])
            /\ writes' = Append(writes, sendError(plan'.err, 400))
            /\ fetches' = fetches
            /\ pc' = "done"
       ELSE /\ plan' = HttpRoute(req.url, data)
            /\ IF plan'.err.cls = "route"
               THEN /\ writes' = Append(writes, sendError(plan'.err, 404))
                    /\ fetches' = fetches
                    /\ pc' = "done"
               ELSE IF plan'.err.cls # "none"
               THEN /\ writes' = Append(writes, sendError(plan'.err, 400))
                    /\ fetches' = fetches
                    /\ pc' = "done"
               ELSE /\ writes' = writes
                    /\ fetches' = Append(fetches, [path |-> plan'.path, query |-> plan'.query])
                    /\ pc' = "fetching"
    /\ UNCHANGED <<OFFX_API_TOKEN, resp, vin, vout, calls, cur>>

\* the list-tools handler
McpListTools ==
    /\ pc = "idle"
    /\ req' = Request("mcp", "tools/list", "", "", NoData)
    /\ writes' = Append(writes, McpResult(McpToolsBody))
    /\ pc' = "done"
    /\ UNCHANGED <<OFFX_API_TOKEN, plan, fetches, resp, vin, vout, calls, cur>>

\* the call-tool handler up to the fetch of the builder
McpCallTool(toolName, data) ==
    /\ pc = "idle"
    /\ req' = Request("mcp", "tools/call", "", toolName, data)
    /\ plan' = McpRoute(toolName, data)
    /\ IF plan'.err.cls # "none"
       THEN /\ writes' = Append(writes, McpErrorResponse(plan'.err))
            /\ fetches' = fetches
            /\ pc' = "done"
       ELSE /\ writes' = writes
            /\ fetches' = Append(fetches, [path |-> plan'.path, query |-> plan'.query])
            /\ pc' = "fetching"
    /\ UNCHANGED <<OFFX_API_TOKEN, resp, vin, vout, calls, cur>>

\* mutant: after a failed connection the handler never answers
FetchSettled_Hangs(r) ==
    /\ pc = "fetching"
    /\ resp' = r
    /\ LET o == AfterFetch(plan, r)
       IN IF r.kind = "network"
          THEN /\ writes' = writes
               /\ pc' = "hung"
          ELSE /\ writes' = Append(writes,
                      IF req.transport = "http"
                      THEN IF o.err.cls # "none" THEN sendError(o.err, 400)
                           ELSE HttpOk(o.result)
                      ELSE IF o.err.cls # "none" THEN McpErrorResponse(o.err)
                           ELSE McpResult(o.result))
               /\ pc' = "done"
    /\ UNCHANGED <<OFFX_API_TOKEN, req, plan, fetches, vin, vout, calls, cur>>

\* mutant: a refused or failed request is sent once more
FetchSettled_Retry(r) ==
    /\ pc = "fetching"
    /\ resp' = r
    /\ LET o == AfterFetch(plan, r)
       IN IF o.err.cls \in {"upstream", "network"} /\ Len(fetches) < 2
          THEN /\ fetches' = Append(fetches, fetches[1])
               /\ writes' = writes
               /\ pc' = "fetching"
          ELSE /\ fetches' = fetches
               /\ writes' = Append(writes,
                      IF req.transport = "http"
                      THEN IF o.err.cls # "none" THEN sendError(o.err, 400)
                           ELSE HttpOk(o.result)
                      ELSE IF o.err.cls # "none" THEN McpErrorResponse(o.err)
                           ELSE McpResult(o.result))
               /\ pc' = "done"
    /\ UNCHANGED <<OFFX_API_TOKEN, req, plan, vin, vout, calls, cur>>

\* the pending fetch settles with r (an upstream answer, or the connection
\* fails), the builder resumes after its await and the handler answers
FetchSettled(r) ==
    /\ pc = "fetching"
    /\ resp' = r
    /\ LET o == AfterFetch(plan, r)
       IN writes' = Append(writes,
              IF req.transport = "http"
              THEN IF o.err.cls # "none" THEN sendError(o.err, 400) ELSE HttpOk(o.result)
              ELSE IF o.err.cls # "none" THEN McpErrorResponse(o.err)
                   ELSE McpResult(o.result))
    /\ pc' = "done"
    /\ UNCHANGED <<OFFX_API_TOKEN, req, plan, fetches, vin, vout, calls, cur>>

Next ==
    \/ pc = "idle" /\ \E m \in HttpMethods, u \in HttpUrls : HttpRequest(m, u)
    \/ pc = "body" /\ \E d \in HttpBodies(req.url) : HttpBodyEnd(d)
    \/ McpListTools
    \/ pc = "idle" /\ \E t \in ToolNames \cup {"bogus"} :
                        \E d \in McpArguments(t) : McpCallTool(t, d)
    \/ pc = "fetching" /\ \E r \in UpstreamResponses : FetchSettled(r)

Spec == Init /\ [][Next]_vars

\* The calls of the termination check: every combination of the key fields
\* of each tool, with or without one of the optional fields LiveFilters.
LiveFilters == {"alert_type", "page"}
LiveArgsOf == [tool \in ToolNames |->
                  Supply(Supply({EmptyArgs}, KeyFields(tool), Cardinality(KeyFields(tool))),
                         FilterFields(tool) \cap LiveFilters, 1)]
HttpBodiesLive(url) ==
    {Data("unparsable", EmptyArgs, <<>>)} \cup OtherData \cup
    IF ToolOfUrl(url) \in ToolNames
    THEN {Data("object", a, <<>>) : a \in LiveArgsOf[ToolOfUrl(url)]}
    ELSE {Data("object", EmptyArgs, <<>>)}
McpArgumentsLive(name) ==
    {Data("undefined", EmptyArgs, <<>>), Data("string", EmptyArgs, <<"a", "b", "c">>),
     Data("string", EmptyArgs, <<>>)} \cup
    IF name \in ToolNames
    THEN {Data("object", a, <<>>) : a \in LiveArgsOf[name]}
    ELSE {Data("object", EmptyArgs, <<>>)}

\* the steps the runtime takes on its own once their event has come: the
\* 'end' of a request body that is fully received, and the settling of a
\* pending fetch
BodyReceived == pc = "body" /\ \E d \in HttpBodiesLive(req.url) : HttpBodyEnd(d)
UpstreamSettles == pc = "fetching" /\ \E r \in UpstreamResponses : FetchSettled(r)

NextLive ==
    \/ pc = "idle" /\ \E m \in HttpMethods, u \in HttpUrls : HttpRequest(m, u)
    \/ BodyReceived
    \/ McpListTools
    \/ pc = "idle" /\ \E t \in ToolNames \cup {"bogus"} :
                        \E d \in McpArgumentsLive(t) : McpCallTool(t, d)
    \/ UpstreamSettles

\* the server under the assumption that a body is received to its end and
\* that an upstream request completes or fails
SpecLive ==
    Init /\ [][NextLive]_vars /\ WF_vars(BodyReceived) /\ WF_vars(UpstreamSettles)

(* ------------------------ several calls in flight --------------------- *)
\* The calls of the concurrency check
ConcUrls == {"/get_targets", "/get_alerts"}
ConcBodies(url) ==
    IF url = "/get_targets"
    THEN {Data("object", [EmptyArgs EXCEPT !["drug_id"] = S5], <<>>),
          Data("object", [EmptyArgs EXCEPT !["drug_id"] = S5, !["adverse_event_id"] = S5], <<>>)}
    ELSE {Data("object", [EmptyArgs EXCEPT !["target_id"] = S5], <<>>),
          Data("object", [EmptyArgs EXCEPT !["drug_id"] = S12a], <<>>)}
ConcTools == {"get_drugs", "bogus"}
ConcArguments(name) ==
    IF name = "get_drugs"
    THEN {Data("object", [EmptyArgs EXCEPT !["adverse_event_id"] = S5], <<>>)}
    ELSE {Data("object", EmptyArgs, <<>>)}
ConcResponses ==
    {r \in UpstreamResponses :
        \/ r.status = 404
        \/ r.status = 200 /\ r.parses /\ r.json \in {JObj("list", <<"t1", "t2">>), JNull}}

\* mutant: url and query are kept in one variable of the module, which every
\* call overwrites
Switch_SharedPlan(i) ==
    /\ i # cur
    /\ calls' = [calls EXCEPT ![cur] = Locals(pc, req, plan, fetches, resp, writes),
                              ![i] = NoCall]
    /\ cur' = i
    /\ pc' = calls[i].pc
    /\ req' = calls[i].req
    /\ plan' = plan
    /\ fetches' = calls[i].fetches
    /\ resp' = calls[i].resp
    /\ writes' = calls[i].writes
    /\ UNCHANGED <<OFFX_API_TOKEN, vin, vout>>

\* The running handler is at an await (or has returned) and the event loop
\* turns to call i: a call that arrives, or one whose awaited promise has
\* settled. The locals of the handler left wait in its closure, those of
\* call i are the ones the code now reads and writes.
Switch(i) ==
    /\ i # cur
    /\ calls' = [calls EXCEPT ![cur] = Locals(pc, req, plan, fetches, resp, writes),
                              ![i] = NoCall]
    /\ cur' = i
    /\ pc' = calls[i].pc
    /\ req' = calls[i].req
    /\ plan' = calls[i].plan
    /\ fetches' = calls[i].fetches
    /\ resp' = calls[i].resp
    /\ writes' = calls[i].writes
    /\ UNCHANGED <<OFFX_API_TOKEN, vin, vout>>

NextC ==
    \/ \E i \in CallIds : Switch(i)
    \/ pc = "idle" /\ \E u \in ConcUrls : HttpRequest("POST", u)
    \/ pc = "body" /\ \E d \in ConcBodies(req.url) : HttpBodyEnd(d)
    \/ pc = "idle" /\ \E t \in ConcTools : \E d \in ConcArguments(t) : McpCallTool(t, d)
    \/ pc = "fetching" /\ \E r \in ConcResponses : FetchSettled(r)

\* the server with MaxCalls calls in flight, their steps interleaved
SpecC == Init /\ [][NextC]_vars

(* --------------------- the validators on their own -------------------- *)
Alphabet == {"1", "2", ",", "a", "-"}
StringsUpTo(n) == UNION {[1..k -> Alphabet] : k \in 0..n}

\* the values handed to a validator: every string over Alphabet up to
\* MaxStrLen, the enum words, and values of the other types
TestValues ==
    {Undef, Null, Bool(TRUE), Bool(FALSE), Num(0), Num(7), Num(0 - 1), Num(12)}
    \cup {Str(w) : w \in StringsUpTo(MaxStrLen)}
    \cup {Str(YesNo[i]) : i \in 1..2} \cup {Str(DescAsc[i]) : i \in 1..2}

InitV ==
    /\ OFFX_API_TOKEN \in Tokens
    /\ pc = "idle"
    /\ req = NoRequest
    /\ plan = NoPlan
    /\ fetches = <<>>
    /\ resp = NoResponse
    /\ writes = <<>>
    /\ vin \in [param : TestValues, field : {"drug_id", "alert_severity"}]
    /\ vout = [by |-> "none", err |-> NoError]
    /\ calls = NoCalls
    /\ cur = 1

RunCommaSeparatedNumbers ==
    /\ vout.by = "none"
    /\ vout' = [by |-> "validateCommaSeparatedNumbers",
                err |-> validateCommaSeparatedNumbers(vin.param, vin.field)]
    /\ UNCHANGED <<OFFX_API_TOKEN, pc, req, plan, fetches, resp, writes, vin, calls, cur>>

RunStringEnum(allowed) ==
    /\ vout.by = "none"
    /\ vout' = [by |-> "validateStringEnum",
                err |-> validateStringEnum(vin.param, vin.field, allowed)]
    /\ UNCHANGED <<OFFX_API_TOKEN, pc, req, plan, fetches, resp, writes, vin, calls, cur>>

RunNumber ==
    /\ vout.by = "none"
    /\ vout' = [by |-> "validateNumber", err |-> validateNumber(vin.param, vin.field)]
    /\ UNCHANGED <<OFFX_API_TOKEN, pc, req, plan, fetches, resp, writes, vin, calls, cur>>

NextV ==
    \/ RunCommaSeparatedNumbers
    \/ \E allowed \in {YesNo, DescAsc} : RunStringEnum(allowed)
    \/ RunNumber

SpecV == InitV /\ [][NextV]_vars

(* ------------------------------- claims ------------------------------- *)
\* s is one or more groups of digits separated by single commas: the
\* language of ^\d+(,\d+)*$ said without the expression
IsDigitList(s) ==
    /\ Len(s) > 0
    /\ \A i \in 1..Len(s) : s[i] \in Digits \cup {","}
    /\ s[1] \in Digits /\ s[Len(s)] \in Digits
    /\ \A i \in 1..(Len(s) - 1) : ~(s[i] = "," /\ s[i + 1] = ",")

RanCsn == vout.by = "validateCommaSeparatedNumbers"
CsnPassed == vout.err.cls = "none"

\* C8 as stated: validateCommaSeparatedNumbers passes exactly when the value
\* is absent (undefined or null), a number, or a string of the pattern, and
\* every other value, any string outside the pattern included, fails with an
\* error that names the field.
C8_AsStated ==
    RanCsn =>
        /\ CsnPassed <=> \/ vin.param.t \in {"undefined", "null", "number"}
                         \/ vin.param.t = "string" /\ IsDigitList(vin.param.s)
        /\ ~CsnPassed => vout.err.field = vin.field

\* C8 amended: validateCommaSeparatedNumbers passes exactly when the value is
\* absent (undefined, null or the empty string), a number, or a string of the
\* pattern; every other value fails with an error that names the field.
C8_CommaSeparatedNumbers ==
    RanCsn =>
        /\ CsnPassed <=> \/ vin.param.t \in {"undefined", "null", "number"}
                         \/ vin.param = Str(<<>>)
                         \/ vin.param.t = "string" /\ IsDigitList(vin.param.s)
        /\ ~CsnPassed => /\ vout.err.cls = "validation"
                         /\ vout.err.field = vin.field

\* the validator has rejected "1,,2" and named the field
C8_Witness ==
    /\ RanCsn
    /\ vin.param = Str(<<"1", ",", ",", "2">>)
    /\ vout.err.cls = "validation" /\ vout.err.field = vin.field

(* ---------------- vocabulary of the claims about calls ---------------- *)
\* the tool the call in hand selects, "none" when it selects none
CallTool ==
    IF req.transport = "http" /\ req.method = "POST" THEN ToolOfUrl(req.url)
    ELSE IF req.transport = "mcp" /\ req.name \in ToolNames THEN req.name
    ELSE "none"

\* the call has reached the builder of tool with an argument object
Dispatched(tool) ==
    /\ pc \in {"fetching", "done"}
    /\ CallTool = tool
    /\ req.data.kind = "object"

Args == req.data.args

\* an identifier (or page) counts as supplied when its value is truthy
Has(f) == Truthy(Args[f])

\* the call was accepted: its upstream request has been issued
Accepted == Len(fetches) = 1

\* the call failed with a validation error and issued no upstream request
Rejected ==
    /\ pc = "done"
    /\ fetches = <<>>
    /\ Len(writes) = 1
    /\ writes[1].kind \in {"http", "mcp_error"}
    /\ writes[1].kind = "http" => writes[1].status = 400
    /\ writes[1].error.cls = "validation"

\* the values the upstream query of the call carries under key k
QueryValues(k) ==
    {fetches[1].query[i].value :
        i \in {j \in 1..Len(fetches[1].query) : fetches[1].query[j].key = k}}
QueryKeys == {fetches[1].query[i].key : i \in 1..Len(fetches[1].query)}

\* the combination rule of each tool that has one (section 4.2; page of
\* get_alerts and get_target defaults to 1 and is no part of the rule)
Rule(tool) ==
    CASE tool = "get_drugs" ->
            \/ Has("target_id") /\ Has("action_id") /\ ~Has("adverse_event_id")
            \/ Has("adverse_event_id") /\ ~Has("target_id") /\ ~Has("action_id")
      [] tool = "get_alerts" -> Has("drug_id") # Has("target_id")
      [] tool = "get_score" ->
            \/ Has("drug_id") /\ ~Has("target_id") /\ ~Has("action_id")
            \/ ~Has("drug_id") /\ Has("target_id") /\ Has("action_id")
      [] tool = "get_drug" -> Has("drug_id") /\ Has("page")
      [] tool = "get_adverse_events" -> Has("drug_id") # Has("target_id")
      [] tool = "get_target" -> Has("target_id") /\ Has("action_id")
      [] tool = "get_targets" -> Has("drug_id") # Has("adverse_event_id")

RuleTools == {"get_drugs", "get_alerts", "get_score", "get_drug", "get_adverse_events",
              "get_target", "get_targets"}

\* C1: in each of the seven tools with a combination rule, a call whose
\* arguments violate the rule fails with a validation error and issues no
\* upstream request.
C1_RuleViolationRejected ==
    \A tool \in RuleTools : Dispatched(tool) /\ ~Rule(tool) => Rejected

\* get_alerts with both drug_id and target_id was rejected for the rule
C1_Witness ==
    /\ Dispatched("get_alerts") /\ Has("drug_id") /\ Has("target_id")
    /\ Rejected /\ writes[1].error.text = ExactlyOneText

\* what the validators accept, said over the values (not by the validators)
FormatOk(v) ==
    \/ v \in {Undef, Null, Str(<<>>)}
    \/ v.t = "number"
    \/ v.t = "string" /\ IsDigitList(v.s)
PageOk(v) == v.t \in {"undefined", "null", "number"}
EnumOk(v, words) == v \in {Undef, Null, Str(<<>>)} \/ (v.t = "string" /\ v.s \in words)

NumericListFields(tool) ==
    CASE tool = "get_alerts" ->
            {"drug_id", "target_id", "action_id", "adverse_event_id", "ref_source_type",
             "alert_type", "alert_phase", "alert_level_evidence", "alert_onoff_target"}
      [] tool = "get_drug" ->
            {"drug_id", "adverse_event_id", "ref_source_type", "alert_type", "alert_phase",
             "alert_level_evidence"}
      [] tool = "get_target" ->
            {"target_id", "action_id", "adverse_event_id", "ref_source_type", "alert_type",
             "alert_phase", "alert_level_evidence", "alert_onoff_target"}

SeverityWords == {<<"y", "e", "s">>, <<"n", "o">>}
OrderWords == {<<"a", "s", "c">>, <<"d", "e", "s", "c">>}

\* every numeric-or-list field and page of the call pass their validators
FormatsValid(tool) ==
    /\ \A f \in NumericListFields(tool) : FormatOk(Args[f])
    /\ PageOk(Args["page"])

\* every field of the call passes its validator
FieldsValid(tool) ==
    /\ FormatsValid(tool)
    /\ EnumOk(Args["alert_severity"], SeverityWords)
    /\ tool = "get_alerts" => /\ EnumOk(Args["order_by_date"], OrderWords)
                              /\ EnumOk(Args["order_by_adv"], OrderWords)

\* the routing of an accepted get_alerts call: the path of the id supplied,
\* that id in the query and not the other
AlertsRouting ==
    Dispatched("get_alerts") /\ Accepted =>
        /\ Has("drug_id") => /\ fetches[1].path = DrugAlertsPath
                             /\ QueryValues("drug_id") = {ToStr(Args["drug_id"])}
                             /\ "target_id" \notin QueryKeys
        /\ Has("target_id") => /\ fetches[1].path = TargetAlertsPath
                               /\ QueryValues("target_id") = {ToStr(Args["target_id"])}
                               /\ "drug_id" \notin QueryKeys

\* C2 as stated: get_alerts is accepted exactly when one and only one of
\* drug_id / target_id is supplied, and then routed by the id supplied.
C2_AsStated ==
    /\ Dispatched("get_alerts") => (Accepted <=> Rule("get_alerts"))
    /\ AlertsRouting

\* C2 amended: get_alerts is accepted exactly when one and only one of
\* drug_id / target_id is supplied and every field passes its validator;
\* when accepted it targets the drug-alerts path if drug_id was supplied and
\* the target-alerts path if target_id was, with that id and not the other
\* in the query.
C2_AlertsExactlyOne ==
    /\ Dispatched("get_alerts") =>
          (Accepted <=> (Rule("get_alerts") /\ FieldsValid("get_alerts")))
    /\ AlertsRouting

\* get_alerts with target_id "1,2" alone went to the target-alerts path
C2_Witness ==
    /\ Dispatched("get_alerts") /\ Accepted
    /\ Args["target_id"] = SList /\ Args["drug_id"] = Undef
    /\ fetches[1].path = TargetAlertsPath
    /\ QueryValues("target_id") = {<<"1", ",", "2">>}

\* the upstream query of the call holds exactly the keys ks
QueryHolds(ks) ==
    /\ QueryKeys = ks
    /\ Len(fetches[1].query) = Cardinality(ks)

One == <<"1">>

\* C3: get_drugs is accepted exactly when target_id and action_id are
\* supplied without adverse_event_id, or adverse_event_id without the two;
\* the query then holds target_id, action_id, page and token, respectively
\* adverse_event_id, page and token, on the drug-search path, with page = 1
\* when page is not supplied.
C3_GetDrugs ==
    Dispatched("get_drugs") =>
        /\ Accepted <=> Rule("get_drugs")
        /\ Accepted =>
            /\ fetches[1].path = DrugSearchPath
            /\ QueryValues("token") = {OFFX_API_TOKEN}
            /\ Nullish(Args["page"]) => QueryValues("page") = {One}
            /\ IF Has("target_id")
               THEN /\ QueryHolds({"target_id", "action_id", "page", "token"})
                    /\ QueryValues("target_id") = {ToStr(Args["target_id"])}
                    /\ QueryValues("action_id") = {ToStr(Args["action_id"])}
               ELSE /\ QueryHolds({"adverse_event_id", "page", "token"})
                    /\ QueryValues("adverse_event_id") = {ToStr(Args["adverse_event_id"])}

\* get_drugs with target_id "1,2", action_id "5" and nothing else was sent
\* to the drug-search path with page=1
C3_Witness ==
    /\ Dispatched("get_drugs") /\ Accepted
    /\ Args["target_id"] = SList /\ Args["action_id"] = S5
    /\ Args["adverse_event_id"] = Undef /\ Args["page"] = Undef
    /\ fetches[1].path = DrugSearchPath
    /\ QueryValues("page") = {One}
    /\ QueryValues("target_id") = {<<"1", ",", "2">>}

\* C4: get_score is accepted exactly when drug_id is supplied without
\* target_id and action_id, or target_id and action_id without drug_id; the
\* first goes to the drug-score path, the second to the target-score path,
\* adverse_event_id is forwarded in both when supplied, and every other
\* presence combination fails with no upstream call.
C4_GetScore ==
    Dispatched("get_score") =>
        /\ Accepted <=> Rule("get_score")
        /\ ~Rule("get_score") => Rejected
        /\ Accepted =>
            /\ Has("drug_id") =>
                  /\ fetches[1].path = DrugScorePath
                  /\ QueryValues("drug_id") = {ToStr(Args["drug_id"])}
            /\ ~Has("drug_id") =>
                  /\ fetches[1].path = TargetScorePath
                  /\ QueryValues("target_id") = {ToStr(Args["target_id"])}
                  /\ QueryValues("action_id") = {ToStr(Args["action_id"])}
            /\ IF Has("adverse_event_id")
               THEN QueryValues("adverse_event_id") = {ToStr(Args["adverse_event_id"])}
               ELSE "adverse_event_id" \notin QueryKeys

\* get_score with target_id, action_id and adverse_event_id 7 went to the
\* target-score path with adverse_event_id=7
C4_Witness ==
    /\ Dispatched("get_score") /\ Accepted
    /\ Has("target_id") /\ Has("action_id") /\ Args["adverse_event_id"] = Num(7)
    /\ fetches[1].path = TargetScorePath
    /\ QueryValues("adverse_event_id") = {<<"7">>}

\* the call is over and was answered with a success response
Succeeded ==
    /\ pc = "done" /\ Len(writes) = 1
    /\ writes[1].kind \in {"http", "mcp_result"}
    /\ writes[1].error.cls = "none"
    /\ writes[1].kind = "http" => writes[1].status = 200

\* the upstream answered 2xx with a JSON object
UpstreamObject ==
    /\ resp.kind = "http" /\ resp.status >= 200 /\ resp.status <= 299
    /\ resp.parses /\ resp.json.kind = "object"

\* the targets list of the upstream result, empty when it has none
UpstreamTargets == IF resp.json.tgt = "list" THEN resp.json.items ELSE <<>>

\* the result of the get_targets call is the single key k over the targets
TargetsUnder(k) ==
    /\ pc = "done" /\ UpstreamObject => Succeeded
    /\ Succeeded => /\ writes[1].result.kind = "object"
                    /\ writes[1].result.key = k
                    /\ writes[1].result.val = JList(UpstreamTargets)

C5_WitnessEmpty ==
    /\ Dispatched("get_targets") /\ Succeeded
    /\ Has("adverse_event_id") /\ ~Has("drug_id")
    /\ resp.json = JObj("missing", <<>>)
    /\ writes[1].result.key = "targets"
    /\ writes[1].result.val = JList(<<>>)

\* the optional fields of get_drug pass their validators
DrugOptionalsValid ==
    /\ \A f \in NumericListFields("get_drug") \ {"drug_id"} : FormatOk(Args[f])
    /\ EnumOk(Args["alert_severity"], SeverityWords)

\* an accepted get_drug call goes to the drug-masterview path with the
\* drug_id and the page supplied
DrugMasterviewRequest ==
    /\ Accepted
    /\ fetches[1].path = DrugMasterviewPath
    /\ QueryValues("drug_id") = {ToStr(Args["drug_id"])}
    /\ QueryValues("page") = {ToStr(Args["page"])}

\* C6 as stated: a get_drug call lacking drug_id or page fails with a
\* validation error and no upstream call, and one that supplies both with
\* every optional field valid is accepted.
C6_AsStated ==
    Dispatched("get_drug") =>
        /\ ~(Has("drug_id") /\ Has("page")) => Rejected
        /\ Has("drug_id") /\ Has("page") /\ DrugOptionalsValid => DrugMasterviewRequest

\* C6 amended: a get_drug call lacking drug_id or page fails with a
\* validation error and no upstream call, and one that supplies both, with
\* drug_id, page and every optional field passing their validators, is
\* accepted and issues the drug-masterview request with that drug_id and page.
C6_GetDrugRequired ==
    Dispatched("get_drug") =>
        /\ ~(Has("drug_id") /\ Has("page")) => Rejected
        /\ Has("drug_id") /\ Has("page") /\ FieldsValid("get_drug") => DrugMasterviewRequest
        /\ Accepted => Has("drug_id") /\ Has("page")

\* get_drug with drug_id "5" and no page was rejected for the missing page
C6_WitnessMissing ==
    /\ Dispatched("get_drug") /\ Rejected
    /\ Args["drug_id"] = S5 /\ Args["page"] = Undef
    /\ writes[1].error.field = "page"

\* get_drug with drug_id "5" and page 2 was sent to the masterview path
C6_Witness ==
    /\ Dispatched("get_drug") /\ Accepted
    /\ Args["drug_id"] = S5 /\ Args["page"] = Num(2)
    /\ fetches[1].path = DrugMasterviewPath
    /\ QueryValues("drug_id") = {<<"5">>} /\ QueryValues("page") = {<<"2">>}

C7_WitnessDefault ==
    /\ Dispatched("get_target") /\ Accepted
    /\ Args["page"] = Undef /\ QueryValues("page") = {<<"1">>}

IdentifierFields(tool) ==
    CASE tool = "get_drugs" -> {"target_id", "action_id", "adverse_event_id"}
      [] tool = "get_alerts" -> {"drug_id", "target_id", "action_id", "adverse_event_id"}
      [] tool = "get_score" -> {"drug_id", "target_id", "action_id", "adverse_event_id"}
      [] tool = "get_drug" -> {"drug_id", "adverse_event_id"}
      [] tool = "get_adverse_events" -> {"drug_id", "target_id"}
      [] tool = "get_target" -> {"target_id", "action_id", "adverse_event_id"}
      [] tool = "get_targets" -> {"drug_id", "adverse_event_id"}

\* a non-empty string outside the pattern ^\d+(,\d+)*$
Malformed(v) == v.t = "string" /\ v.s # <<>> /\ ~IsDigitList(v.s)

\* C9: in each of the seven tools that take identifier fields, supplying an
\* identifier string outside the pattern ^\d+(,\d+)*$ makes the call fail
\* with a validation error and no upstream call.
C9_MalformedIdentifierRejected ==
    \A tool \in RuleTools :
        Dispatched(tool) /\ (\E f \in IdentifierFields(tool) : Malformed(Args[f]))
            => Rejected

\* the same over the three builders that run the validators
C9_ValidatedTools ==
    \A tool \in {"get_alerts", "get_drug", "get_target"} :
        Dispatched(tool) /\ (\E f \in IdentifierFields(tool) : Malformed(Args[f]))
            => Rejected

\* the enum error of field f, listing the allowed words
EnumErrorOf(f, allowed) ==
    /\ writes[1].error.field = f
    /\ writes[1].error.text = "must be one of"
    /\ writes[1].error.allowed = allowed

\* C10 as stated: a get_alerts, get_drug or get_target call that supplies an
\* alert_severity other than "yes" / "no", and a get_alerts call that
\* supplies an order_by_date or order_by_adv other than "asc" / "desc",
\* fails with a validation error listing the allowed values and issues no
\* upstream call.
C10_AsStated ==
    /\ \A tool \in {"get_alerts", "get_drug", "get_target"} :
          Dispatched(tool) /\ Args["alert_severity"] # Undef
              /\ ~(Args["alert_severity"].t = "string"
                   /\ Args["alert_severity"].s \in SeverityWords)
              => Rejected /\ EnumErrorOf("alert_severity", YesNo)
    /\ \A f \in {"order_by_date", "order_by_adv"} :
          Dispatched("get_alerts") /\ Args[f] # Undef
              /\ ~(Args[f].t = "string" /\ Args[f].s \in OrderWords)
              => Rejected /\ EnumErrorOf(f, DescAsc)

\* C10 amended: a get_alerts, get_drug or get_target call that supplies a
\* non-empty alert_severity (neither null nor "") other than "yes" / "no",
\* and a get_alerts call that supplies a non-empty order_by_date or
\* order_by_adv other than "asc" / "desc", fails with a validation error and
\* issues no upstream call; the error lists the allowed values of that field
\* when every field validated before it passes.
C10_EnumRejected ==
    /\ \A tool \in {"get_alerts", "get_drug", "get_target"} :
          Dispatched(tool) /\ ~EnumOk(Args["alert_severity"], SeverityWords) =>
              /\ Rejected
              /\ FormatsValid(tool) => EnumErrorOf("alert_severity", YesNo)
    /\ Dispatched("get_alerts") /\ ~EnumOk(Args["order_by_date"], OrderWords) =>
          /\ Rejected
          /\ FormatsValid("get_alerts") /\ EnumOk(Args["alert_severity"], SeverityWords)
                => EnumErrorOf("order_by_date", DescAsc)
    /\ Dispatched("get_alerts") /\ ~EnumOk(Args["order_by_adv"], OrderWords) =>
          /\ Rejected
          /\ FormatsValid("get_alerts") /\ EnumOk(Args["alert_severity"], SeverityWords)
                /\ EnumOk(Args["order_by_date"], OrderWords)
                => EnumErrorOf("order_by_adv", DescAsc)

\* get_target with target_id, action_id and alert_severity "x" was rejected
\* with the values allowed for alert_severity
C10_Witness ==
    /\ Dispatched("get_target") /\ Rejected
    /\ Has("target_id") /\ Has("action_id") /\ Args["alert_severity"] = SX
    /\ EnumErrorOf("alert_severity", YesNo)

\* get_alerts with order_by_adv "x" was rejected with the values allowed
C10_WitnessOrder ==
    /\ Dispatched("get_alerts") /\ Rejected
    /\ Args["order_by_adv"] = SX
    /\ EnumErrorOf("order_by_adv", DescAsc)

(* ------------------------ order of the checks ------------------------- *)
\* the messages the three validators throw
ValidatorTexts == {CsnText, "must be a number", "must be one of"}

\* the call failed with the error of a field validator, naming the field
FieldErrorReturned ==
    /\ Rejected
    /\ writes[1].error.text \in ValidatorTexts
    /\ writes[1].error.field # ""

\* C11: when a get_alerts, get_drug or get_target call has both a field that
\* fails its validator and a violated combination rule, the error returned
\* is the field-validation error, not the combination-rule error.
C11_ValidatorsFirst ==
    \A tool \in {"get_alerts", "get_drug", "get_target"} :
        Dispatched(tool) /\ ~FieldsValid(tool) /\ ~Rule(tool) => FieldErrorReturned

\* get_alerts with alert_type "x" and neither id was rejected for alert_type
C11_Witness ==
    /\ Dispatched("get_alerts") /\ ~Has("drug_id") /\ ~Has("target_id")
    /\ Args["alert_type"] = SX
    /\ Rejected /\ writes[1].error.field = "alert_type" /\ writes[1].error.text = CsnText

(* --------------------------- filter forwarding ------------------------ *)
\* the tools whose builders run field validators and forward filters
ValidatingTools == {"get_alerts", "get_drug", "get_target"}

\* the optional filter fields of each of the three filtering tools
FilterSet(tool) ==
    CASE tool = "get_alerts" -> {AlertFilterKeys[i] : i \in 1..Len(AlertFilterKeys)}
      [] tool = "get_drug" -> {DrugFilterKeys[i] : i \in 1..Len(DrugFilterKeys)}
      [] tool = "get_target" -> {TargetFilterKeys[i] : i \in 1..Len(TargetFilterKeys)}

\* the key fields of each of the three tools, which its query holds besides
KeySet(tool) ==
    CASE tool = "get_alerts" -> {"drug_id", "target_id", "page"}
      [] tool = "get_drug" -> {"drug_id", "page"}
      [] tool = "get_target" -> {"target_id", "action_id", "page"}

\* a value supplied and not empty
NonEmpty(v) == v \notin {Undef, Null, Str(<<>>)}

C12_WitnessOutside ==
    /\ Dispatched("get_drug") /\ Accepted
    /\ NonEmpty(Args["alert_onoff_target"])
    /\ "alert_onoff_target" \notin QueryKeys

(* --------------------------- upstream failures ------------------------ *)
\* the call has ended with the upstream answering a status outside 200..299
UpstreamRefused ==
    /\ pc = "done"
    /\ resp.kind = "http"
    /\ ~(resp.status >= 200 /\ resp.status <= 299)

\* the one response of the call is an error in the shape of its transport
ErrorWritten ==
    /\ Len(writes) = 1
    /\ \/ writes[1].kind = "http" /\ writes[1].status # 200
       \/ writes[1].kind = "mcp_error"
    /\ writes[1].error.cls # "none"

\* C13: when the upstream answers a tool call with a non-2xx status, the call
\* fails with an error whose message holds the upstream status code and the
\* raw upstream body text; a 4xx and a 5xx answer are treated alike (the same
\* error class and the same code towards the caller), and no further
\* upstream request is made for the call.
C13_UpstreamStatusSurfaced ==
    UpstreamRefused =>
        /\ ErrorWritten
        /\ writes[1].error.cls = "upstream"
        /\ writes[1].error.text = "Request failed with status"
        /\ writes[1].error.status = resp.status
        /\ writes[1].error.body = resp.text
        /\ writes[1].code = (IF req.transport = "http" THEN 400 ELSE 0 - 32603)
        /\ Len(fetches) = 1

\* the upstream answered 404 "not found" and the caller got an error with both
C13_Witness ==
    /\ UpstreamRefused /\ resp.status = 404 /\ resp.text = "not found"
    /\ ErrorWritten
    /\ writes[1].error.status = 404 /\ writes[1].error.body = "not found"

(* ------------------------ one upstream request ------------------------ *)
\* the type of a get_targets call with drug_id is one getTargets knows
TypeKnown ==
    Has("drug_id") => ~Truthy(Args["type"]) \/ Args["type"] \in {Primary, Secondary}

\* the call, to a tool with a combination rule, passes validation: the rule
\* holds and the fields the builder validates are valid
PassesValidation(tool) ==
    /\ Dispatched(tool)
    /\ Rule(tool)
    /\ tool \in ValidatingTools => FieldsValid(tool)
    /\ tool = "get_targets" => TypeKnown

\* the call has been answered after its upstream request settled
AnsweredAfterFetch ==
    /\ pc = "done"
    /\ resp # NoResponse

\* C14: every inbound call that passes validation issues exactly one upstream
\* request, whatever the outcome of that request, get_score and get_targets
\* included; no call, on either transport, issues a second upstream request.
C14_OneUpstreamRequest ==
    /\ Len(fetches) <= 1
    /\ \A tool \in RuleTools : PassesValidation(tool) => Len(fetches) = 1
    /\ pc = "fetching" \/ AnsweredAfterFetch => Len(fetches) = 1

\* a get_targets call with type "secondary" was answered 500 by the upstream
\* and issued its one request, on the secondary-target path
C14_Witness ==
    /\ PassesValidation("get_targets") /\ Args["type"] = Secondary
    /\ AnsweredAfterFetch /\ resp.status = 500
    /\ Len(fetches) = 1 /\ fetches[1].path = SecondaryTargetsPath

\* a get_score call by target was answered after its one request
C14_WitnessScore ==
    /\ PassesValidation("get_score") /\ Has("target_id")
    /\ AnsweredAfterFetch /\ resp.kind = "network"
    /\ Len(fetches) = 1 /\ fetches[1].path = TargetScorePath

(* ------------------------------ termination --------------------------- *)
\* the terminal states of a call: its one response is a success ...
Responding ==
    /\ pc = "done" /\ Len(writes) = 1
    /\ \/ writes[1].kind = "http" /\ writes[1].status = 200
       \/ writes[1].kind = "mcp_result"

\* ... or an error
ErrorResponding == pc = "done" /\ ErrorWritten

\* C15: every inbound call on either transport eventually reaches Responding
\* or ErrorResponding, given that the request body is fully received and the
\* upstream request completes or fails; a call that fails validation is in
\* ErrorResponding without an upstream request having been issued or awaited.
C15_CallTerminates ==
    /\ [](pc # "idle" => <>(Responding \/ ErrorResponding))
    /\ [](\A i \in 1..Len(writes) :
             writes[i].error.cls = "validation" =>
                 ErrorResponding /\ fetches = <<>> /\ resp = NoResponse)

\* a call over HTTP was accepted, its upstream request settled and the call
\* was answered with a success
C15_Witness ==
    /\ req.transport = "http" /\ Len(fetches) = 1 /\ resp # NoResponse
    /\ Responding

\* a call over the structured transport failed validation and was answered
\* with an error, no upstream request issued
C15_WitnessInvalid ==
    /\ req.transport = "mcp" /\ Rejected /\ ErrorResponding /\ resp = NoResponse

(* ----------------------------- unknown tool --------------------------- *)
\* a call-tool request for a name that is no tool has been handled
UnknownToolCalled ==
    /\ pc = "done"
    /\ req.transport = "mcp" /\ req.method = "tools/call"
    /\ req.name \notin ToolNames

\* C16: on the structured transport, invoking a tool name that is not in the
\* registry fails with the MethodNotFound error code (-32601 of JSON-RPC)
\* and issues no upstream call.
C16_UnknownToolMethodNotFound ==
    UnknownToolCalled =>
        /\ ErrorWritten
        /\ writes[1].code = 0 - 32601
        /\ fetches = <<>>

\* what the handler does for an unknown name: an error, no upstream call,
\* under the code -32603 that its catch gives every error
C16_UnknownToolRefused ==
    UnknownToolCalled =>
        /\ ErrorWritten /\ writes[1].kind = "mcp_error"
        /\ writes[1].error.text = "MCP error -32603: Unknown tool"
        /\ writes[1].code = 0 - 32603
        /\ fetches = <<>>

(* ---------------------------- unknown routes -------------------------- *)
\* an HTTP request has been answered whose method and path are not
\* GET /health, POST /list_tools or a POST to one of the ten tool paths
Unrouted ==
    /\ pc = "done"
    /\ req.transport = "http"
    /\ ~(req.method = "GET" /\ req.url = "/health")
    /\ ~(req.method = "POST" /\ req.url = "/list_tools")
    /\ ~(req.method = "POST" /\ ToolOfUrl(req.url) \in ToolNames)

\* C17 as stated: every such request is answered with status 404, whatever
\* its body, and issues no upstream call.
C17_AsStated ==
    Unrouted => Len(writes) = 1 /\ writes[1].status = 404 /\ fetches = <<>>

\* C17 amended: every such request issues no upstream call and is answered
\* with status 404, except a POST whose body is not parsable JSON, which is
\* answered with status 400 (the body is parsed before the path is looked at).
C17_UnroutedNotFound ==
    Unrouted =>
        /\ fetches = <<>>
        /\ Len(writes) = 1
        /\ writes[1].status =
              (IF req.method = "POST" /\ req.data.kind = "unparsable" THEN 400 ELSE 404)

\* a POST to an unknown path with a JSON object for body was answered 404
C17_Witness ==
    /\ Unrouted /\ req.method = "POST" /\ req.url = "/unknown"
    /\ req.data.kind = "object"
    /\ writes[1].status = 404 /\ writes[1].error = NotFound

\* a GET to a tool path was answered 404
C17_WitnessGet ==
    /\ Unrouted /\ req.method = "GET" /\ req.url = "/get_drugs"
    /\ writes[1].status = 404

(* -------------------------- HTTP error statuses ----------------------- *)
\* an HTTP call has been answered with an error
HttpFailed ==
    /\ pc = "done" /\ req.transport = "http"
    /\ Len(writes) = 1 /\ writes[1].error.cls # "none"

\* the failure is an upstream one: a non-2xx answer, a failed connection or
\* an answer that is no JSON
UpstreamFailure ==
    /\ resp # NoResponse
    /\ writes[1].error.cls \in {"upstream", "network", "parse"}

\* C18: on the HTTP transport a validation failure is answered with status
\* 400 and an upstream failure (non-2xx, network or parse failure) with
\* status 500; in both cases the body is {error, code} with code equal to
\* the HTTP status of the response.
C18_StatusByFailureKind ==
    HttpFailed =>
        /\ writes[1].error.cls = "validation" => writes[1].status = 400
        /\ UpstreamFailure => writes[1].status = 500
        /\ writes[1].code = writes[1].status

\* what the handler does: the {error, code} body always repeats the status,
\* and the status is 400 for every failure but the unknown route
C18_ErrorBodyRepeatsStatus ==
    HttpFailed =>
        /\ writes[1].code = writes[1].status
        /\ writes[1].status = (IF writes[1].error.cls = "route" THEN 404 ELSE 400)

(* ------------------------------- health ------------------------------- *)
\* a GET /health request has been handled
HealthAsked ==
    /\ pc # "idle"
    /\ req.transport = "http" /\ req.method = "GET" /\ req.url = "/health"

\* C19: GET /health always answers status 200 with body {"status":"ok"}, for
\* every value of the configured token, without reading arguments and
\* without issuing an upstream call.
C19_HealthOk ==
    HealthAsked =>
        /\ pc = "done"
        /\ Len(writes) = 1
        /\ writes[1].kind = "http" /\ writes[1].status = 200
        /\ writes[1].error = NoError
        /\ writes[1].result.kind = "health"
        /\ writes[1].result.key = "status"
        /\ writes[1].result.val.items = <<"ok">>
        /\ req.data = NoData
        /\ plan = NoPlan
        /\ fetches = <<>>

\* the health check was answered, under the second of the tokens
C19_Witness ==
    /\ HealthAsked /\ OFFX_API_TOKEN = <<"k", "2">>
    /\ writes[1].status = 200 /\ writes[1].result = HealthBody

(* ----------------------------- error shape ---------------------------- *)
\* a failure was raised while the call in hand was handled: a field or a
\* combination failure, an unparsable request body, an unknown tool, any
\* other throw before the upstream request, an upstream answer that is
\* non-2xx, missing (network) or no JSON, or the value null where getTargets
\* reads the targets of the answer
FailureRaised ==
    /\ pc = "done"
    /\ \/ plan.err.cls # "none"
       \/ req.data.kind = "unparsable"
       \/ UnknownToolCalled
       \/ CallTool \in RuleTools /\ Dispatched(CallTool) /\ ~Rule(CallTool)
       \/ CallTool \in ValidatingTools /\ Dispatched(CallTool) /\ ~FieldsValid(CallTool)
       \/ resp.kind = "network"
       \/ UpstreamRefused
       \/ resp.kind = "http" /\ ~resp.parses
       \/ plan.wrap # "" /\ resp.kind = "http" /\ resp.status = 200 /\ resp.parses
             /\ resp.json.kind = "null"

\* the error shape of each transport: an error object with a numeric code
\* and a message; a non-200 response with an {error, code} body
McpErrorShape ==
    /\ writes[1].kind = "mcp_error"
    /\ writes[1].code < 0
    /\ writes[1].error.cls # "none" /\ writes[1].error.text # ""
HttpErrorShape ==
    /\ writes[1].kind = "http"
    /\ writes[1].status # 200 /\ writes[1].code = writes[1].status
    /\ writes[1].error.cls # "none" /\ writes[1].error.text # ""
    /\ writes[1].result = NoResult

\* C20: every failure raised while handling a call is delivered to the
\* caller in the error shape of the transport, and never as a success
\* response.
C20_FailuresInErrorShape ==
    FailureRaised =>
        /\ Len(writes) = 1
        /\ IF req.transport = "mcp" THEN McpErrorShape ELSE HttpErrorShape
        /\ ~Responding

\* a 200 answer of the upstream that is no JSON reached the caller of the
\* structured transport as an error
C20_Witness ==
    /\ FailureRaised /\ req.transport = "mcp"
    /\ resp.kind = "http" /\ resp.status = 200 /\ ~resp.parses
    /\ McpErrorShape /\ writes[1].error.cls = "parse"

\* an unparsable request body reached the HTTP caller as an error
C20_WitnessBody ==
    /\ FailureRaised /\ req.transport = "http" /\ req.data.kind = "unparsable"
    /\ HttpErrorShape /\ writes[1].status = 400

(* ----------------------------- concurrency ---------------------------- *)
\* the locals of call i
Context(i) == IF i = cur THEN Locals(pc, req, plan, fetches, resp, writes) ELSE calls[i]

\* what the builder of call c does with the arguments of c
OwnPlan(c) ==
    IF c.req.transport = "http" THEN HttpRoute(c.req.url, c.req.data)
    ELSE McpRoute(c.req.name, c.req.data)

\* the answer to call c, from its arguments and its upstream response alone
OwnAnswer(c) ==
    LET p == OwnPlan(c)
        o == AfterFetch(p, c.resp)
    IN IF c.req.transport = "http"
       THEN IF p.err.cls = "route" THEN sendError(p.err, 404)
            ELSE IF p.err.cls # "none" THEN sendError(p.err, 400)
            ELSE IF o.err.cls # "none" THEN sendError(o.err, 400)
            ELSE HttpOk(o.result)
       ELSE IF p.err.cls # "none" THEN McpErrorResponse(p.err)
            ELSE IF o.err.cls # "none" THEN McpErrorResponse(o.err)
            ELSE McpResult(o.result)

OwnAnswers ==
    \A i \in CallIds :
        LET c == Context(i)
        IN /\ c.pc = "fetching" =>
                /\ c.fetches = <<[path |-> OwnPlan(c).path, query |-> OwnPlan(c).query]>>
                /\ c.writes = <<>>
           /\ c.pc = "done" => c.writes = <<OwnAnswer(c)>>

\* a call that waits for the upstream can go on whatever the others do
NotBlocked ==
    \A i \in CallIds :
        Context(i).pc = "fetching" =>
            IF i = cur THEN ENABLED (\E r \in ConcResponses : FetchSettled(r))
            ELSE ENABLED Switch(i)

\* a step changes the locals of the running call only
OwnLocalsOnly ==
    \A i \in CallIds : Context(i)' # Context(i) => i = cur /\ cur' = cur

\* C21: with several calls in flight, each call sends the request its own
\* arguments give and is answered from its own arguments and its own upstream
\* response alone; no step of one call changes the locals of another; a call
\* waiting for the upstream can always go on, so that the calls complete in
\* any order.
C21_CallsIsolated == [](OwnAnswers /\ NotBlocked) /\ [][OwnLocalsOnly]_vars

\* the second call is answered from its upstream response while the first
\* still waits for its own
C21_Witness ==
    /\ Context(1).pc = "fetching"
    /\ Context(2).pc = "done"
    /\ Context(2).resp.kind = "http"

\* and the other way round, the same arguments answered differently because
\* the upstream answered differently
C21_WitnessOrder ==
    /\ Context(2).pc = "fetching"
    /\ Context(1).pc = "done"
    /\ Context(1).resp.status = 404
    /\ Context(1).req = Context(2).req

(* ----------------------------- pass-through --------------------------- *)
\* a call of a tool other than get_targets has succeeded
PassedThrough ==
    /\ CallTool \in ToolNames \ {"get_targets"}
    /\ Succeeded
    /\ resp.kind = "http"

\* the JSON value delivered: that of the HTTP body or of the text payload
Delivered == writes[1].result.val

\* the upstream body holds a number no double holds
BeyondDouble == ResponseJson(resp.json) = JInfinity

C22_WitnessHttp ==
    /\ PassedThrough
    /\ req.transport = "http"
    /\ resp.json = JNum(<<"7">>)
    /\ Delivered = resp.json

C22_WitnessBeyond ==
    /\ PassedThrough
    /\ BeyondDouble
    /\ Delivered = JNull

(* ------------------------------ tool names ---------------------------- *)
\* the names a tools list holds
NamesOf(body) == {body.val.items[i] : i \in 1..Len(body.val.items)}

\* a list of tools has been delivered
ToolsListed ==
    /\ pc = "done" /\ Len(writes) = 1
    /\ writes[1].error.cls = "none"
    /\ writes[1].result.kind = "tools"

\* the call named a tool or a path and its arguments were read
NameLookedUp ==
    /\ pc \in {"fetching", "done"}
    /\ \/ req.transport = "mcp" /\ req.method = "tools/call"
       \/ req.transport = "http" /\ req.method = "POST" /\ req.url # "/list_tools"
                                 /\ req.data.kind # "unparsable"

\* the name the call invokes: the tool name, or the tool the path stands for
NameInvoked == IF req.transport = "mcp" THEN req.name ELSE ToolOfUrl(req.url)

C23_WitnessMcp ==
    /\ ToolsListed
    /\ req.transport = "mcp"

C23_WitnessCalled ==
    /\ NameLookedUp
    /\ req.transport = "http"
    /\ NameInvoked = "get_targets"
    /\ Accepted

C23_WitnessUnlisted ==
    /\ NameLookedUp
    /\ req.transport = "mcp"
    /\ NameInvoked = "bogus"
    /\ plan.err.cls = "route"

(* ---------------------------- input schemas --------------------------- *)
\* a call with an argument object for which the builder issued its request
AcceptedBy(tool) == Dispatched(tool) /\ Accepted

\* the tools whose builder asks for what the schema requires
SchemaTools == {"search_drugs", "search_targets", "search_adverse_events", "get_score",
                "get_adverse_events", "get_drug"}

C24_WitnessNoPage ==
    /\ AcceptedBy("get_alerts")
    /\ Args["page"] = Undef

C24_WitnessNoType ==
    /\ AcceptedBy("get_targets")
    /\ Has("drug_id")
    /\ Args["type"] = Undef

C24_WitnessEmpty ==
    /\ AcceptedBy("get_drugs")
    /\ ~InputSchema("get_drugs", Args)

(* --------------------------- the two transports ----------------------- *)
\* the path under which the HTTP transport serves tool
UrlOf(tool) == CHOOSE u \in HttpUrls : ToolOfUrl(u) = tool

\* what each transport does with the argument object of the call in hand:
\* the call was made on one of them, OnOther is what the other would do
OnMcp == McpRoute(CallTool, req.data)
OnHttp == HttpRoute(UrlOf(CallTool), req.data)

\* both transports reject, or both send the same request
SameDecision ==
    /\ (OnMcp.err.cls = "none") <=> (OnHttp.err.cls = "none")
    /\ OnMcp.err.cls = "none" => /\ OnMcp.path = OnHttp.path
                                 /\ OnMcp.query = OnHttp.query

\* a call of a tool with an argument object has been decided
ObjectCall ==
    /\ CallTool \in ToolNames
    /\ Dispatched(CallTool)
    /\ plan = IF req.transport = "mcp" THEN OnMcp ELSE OnHttp

SingleFieldTools == {"search_drugs", "search_targets", "search_adverse_events"}

\* C25: for every tool and every argument object, the structured transport
\* and the HTTP transport both reject the call or both issue the same
\* upstream request (same path, same query), the single-field tools with a
\* null, numeric or empty field included.
C25_TransportsAgree ==
    (CallTool \in ToolNames /\ Dispatched(CallTool)) => ObjectCall /\ SameDecision

\* the part that holds: the seven tools whose case hands the arguments to the
\* builder as they are
C25_SharedBuildersAgree ==
    (CallTool \in ToolNames \ SingleFieldTools /\ Dispatched(CallTool)) =>
        ObjectCall /\ SameDecision

\* the two transports part on a null field of search_drugs
C25_WitnessNull ==
    /\ ObjectCall
    /\ CallTool = "search_drugs"
    /\ Args["drug"] = Null
    /\ OnMcp.err.cls = "none"
    /\ OnHttp.err.cls = "validation"

(* ------------------------------ the query ----------------------------- *)
\* the positions of the upstream query that hold key k
QueryPositions(k) == {i \in 1..Len(fetches[1].query) : fetches[1].query[i].key = k}

\* C26: every upstream request carries the key token exactly once, with the
\* configured token as its value, and no key of the query occurs twice.
C26_TokenOnce ==
    Accepted =>
        /\ Cardinality(QueryPositions("token")) = 1
        /\ QueryValues("token") = {OFFX_API_TOKEN}
        /\ \A k \in QueryKeys : Cardinality(QueryPositions(k)) = 1

\* a get_alerts request with the page of the caller, under the second token
C26_Witness ==
    /\ Dispatched("get_alerts") /\ Accepted
    /\ OFFX_API_TOKEN = <<"k", "2">>
    /\ QueryValues("token") = {<<"k", "2">>}
    /\ Args["page"] # Undef
    /\ QueryKeys = {"page", "token", "drug_id"}

C26_WitnessTarget ==
    /\ Dispatched("get_target") /\ Accepted
    /\ Cardinality(QueryKeys) >= 5

(* ------------------------- numeric values sent ------------------------ *)
\* the fields that hold a number or a list of numbers
NumericKeys == {"drug_id", "target_id", "action_id", "adverse_event_id", "ref_source_type",
                "alert_type", "alert_phase", "alert_level_evidence", "alert_onoff_target"}

\* an upstream request of one of the three validating tools has been issued
ValidatedRequest ==
    /\ \E tool \in ValidatingTools : Dispatched(tool)
    /\ Accepted

C27_StringsSentAreDigitLists ==
    ValidatedRequest =>
        \A k \in NumericKeys \cap QueryKeys :
            Args[k].t = "string" => \A v \in QueryValues(k) : IsDigitList(v)

\* get_alerts with the number -1 as drug_id sends drug_id=-1
C27_WitnessNegative ==
    /\ Dispatched("get_alerts") /\ Accepted
    /\ Args["drug_id"] = Num(0 - 1)
    /\ QueryValues("drug_id") = {<<"-", "1">>}

(* ------------------------- presence by truthiness --------------------- *)
TruthinessTools == {"get_alerts", "get_adverse_events", "get_score", "get_drugs",
                    "get_targets"}

\* args without the fields of fs that hold one of the values vs
Without(args, fs, vs) ==
    [f \in Fields |-> IF f \in fs /\ args[f] \in vs THEN Undef ELSE args[f]]

\* the decision and the request of the call in hand are those of the call
\* with arguments a
TreatedAs(a) == plan = BuilderOf(CallTool, a)

\* C28 as the spec states it: in the five tools an identifier supplied as ""
\* or as the number 0 is treated as if it had not been supplied, for the
\* combination rule and for the query: the decision and the request are those
\* of the call without it.
C28_AsStated ==
    \A tool \in TruthinessTools :
        Dispatched(tool) =>
            TreatedAs(Without(Args, IdentifierFields(tool), {Str(<<>>), Num(0)}))

\* C28: in get_adverse_events, get_score, get_drugs and get_targets every
\* identifier, and in get_alerts drug_id and target_id, supplied as "" or as
\* the number 0 is treated as if it had not been supplied, for the
\* combination rule and for the query. The optional action_id and
\* adverse_event_id of get_alerts are left out when "" and sent when 0.
C28_PresenceByTruthiness ==
    /\ \A tool \in TruthinessTools \ {"get_alerts"} :
          Dispatched(tool) =>
              TreatedAs(Without(Args, IdentifierFields(tool), {Str(<<>>), Num(0)}))
    /\ Dispatched("get_alerts") =>
          /\ TreatedAs(Without(Without(Args, {"drug_id", "target_id"}, {Str(<<>>), Num(0)}),
                               {"action_id", "adverse_event_id"}, {Str(<<>>)}))
          /\ Accepted => \A f \in {"action_id", "adverse_event_id"} :
                            Args[f] = Num(0) => QueryValues(f) = {<<"0">>}

\* the example of the spec: drug_id "" with target_id "5"
C28_Witness ==
    /\ Dispatched("get_alerts") /\ Accepted
    /\ Args["drug_id"] = Str(<<>>) /\ Args["target_id"] = S5
    /\ fetches[1].path = TargetAlertsPath
    /\ "drug_id" \notin QueryKeys

C28_WitnessZero ==
    /\ Dispatched("get_alerts") /\ Accepted
    /\ Args["drug_id"] = Num(0) /\ Has("target_id")
    /\ "drug_id" \notin QueryKeys

C28_WitnessAction ==
    /\ Dispatched("get_alerts") /\ Accepted
    /\ Args["action_id"] = Num(0)
    /\ QueryValues("action_id") = {<<"0">>}

C28_WitnessScore ==
    /\ Dispatched("get_score") /\ Accepted
    /\ Args["adverse_event_id"] = Str(<<>>)
    /\ "adverse_event_id" \notin QueryKeys

(* --------------------------- codes of call-tool ----------------------- *)
\* a call-tool request ended in an error
CallToolFailed ==
    /\ pc = "done" /\ Len(writes) = 1
    /\ req.transport = "mcp" /\ req.method = "tools/call"
    /\ writes[1].kind # "mcp_result"

\* C29: every error of call-tool carries the code -32603, whatever its cause:
\* a missing field of a search tool first raised with -32602, a field or
\* combination failure, an upstream failure, an unknown tool name.
C29_InternalErrorCode ==
    /\ CallToolFailed => /\ writes[1].kind = "mcp_error"
                         /\ writes[1].code = 0 - 32603
    /\ (pc = "done" /\ req.transport = "mcp" /\ req.method = "tools/call"
        /\ (plan.err.cls # "none" \/ AfterFetch(plan, resp).err.cls # "none"))
       => CallToolFailed

\* the missing field of search_drugs, raised with -32602, delivered with -32603
C29_Witness ==
    /\ CallToolFailed
    /\ req.name = "search_drugs"
    /\ writes[1].error.status = 0 - 32602
    /\ writes[1].code = 0 - 32603

C29_WitnessUpstream ==
    /\ CallToolFailed
    /\ UpstreamRefused
    /\ writes[1].code = 0 - 32603

C29_WitnessRule ==
    /\ CallToolFailed
    /\ Dispatched("get_score") /\ ~Rule("get_score")
    /\ writes[1].code = 0 - 32603

C29_WitnessUnknown ==
    /\ CallToolFailed
    /\ UnknownToolCalled
    /\ writes[1].code = 0 - 32603

(* ---------------------------- answered once -------------------------- *)
\* an HTTP request is being handled or has been handled
HttpHandled == pc # "idle" /\ req.transport = "http"

\* a response is either the success response or an error response
OneKind(w) ==
    \/ w.status = 200 /\ w.error = NoError /\ w.result # NoResult
    \/ w.status # 200 /\ w.error # NoError /\ w.result = NoResult

\* C30: on the HTTP transport each request is answered at most once: nothing
\* is written while the body or the upstream answer is awaited, and on every
\* path that ends (health, list_tools, unknown method, unknown path,
\* unparsable body, builder failure, builder success) status line and body
\* are written exactly once, as a success or as an error and never both.
C30_AnsweredOnce ==
    HttpHandled =>
        /\ Len(writes) <= 1
        /\ pc \in {"body", "fetching"} => writes = <<>>
        /\ pc = "done" => Len(writes) = 1 /\ writes[1].kind = "http" /\ OneKind(writes[1])

\* a builder failed after its upstream request: one error response
C30_Witness ==
    /\ HttpHandled /\ pc = "done"
    /\ Accepted /\ UpstreamRefused
    /\ Len(writes) = 1 /\ writes[1].status = 400

\* an unknown path: one 404
C30_WitnessPath ==
    /\ HttpHandled /\ pc = "done"
    /\ req.method = "POST" /\ req.url = "/unknown"
    /\ writes = <<sendError(NotFound, 404)>>

\* a builder succeeded: one 200
C30_WitnessSuccess ==
    /\ HttpHandled /\ pc = "done"
    /\ Accepted /\ Succeeded
    /\ Len(writes) = 1

====
